---- MODULE Spec2Model ----
(***************************************************************************)
(* Sensor control pipeline of the device client: LidarControlService,      *)
(* LidarDataCollector with its generation loop threads and session log,    *)
(* LidarTelemetryStreamingService and OccupancyDetector with their loops,  *)
(* UltrasonicControlService, UltrasonicStreamingService and                *)
(* ProximityDetector.                                                      *)
(*                                                                         *)
(* Units: rates are tenths of Hz (10.0 Hz = 100), LiDAR ranges are tenths  *)
(* of a metre (0.5 m = 5, 30.0 m = 300), ultrasonic ranges are cm,         *)
(* confidences are hundredths, streaming intervals are tenths of a second, *)
(* timestamps are readings of the clock variable now.                      *)
(*                                                                         *)
(* delivered and calls record what the publish callbacks were handed; they *)
(* are observations, no code reads them.  at and held are the positions of *)
(* the threads in their lock operations and the owners of the components'  *)
(* re-entrant locks.  analysis holds the local variables of the calls of   *)
(* ProximityDetector.process_telemetry_data that are in progress.          *)
(***************************************************************************)
EXTENDS Integers, FiniteSets, Sequences, TLC

VARIABLES family, scenario, now, state, telemetry_streaming_service, streaming,
          collecting, parameters, threads, current_telemetry,
          telemetry_entries, stopped_entries, session_file,
          stream, stream_threads, delivered,
          occ, occ_threads, calls, us, us_threads, prox, prox_threads,
          u_active, u_config, u_start_time, u_status, ret, at, held, analysis

vars ==
  <<family, scenario, now, state, telemetry_streaming_service, streaming,
    collecting, parameters, threads, current_telemetry,
    telemetry_entries, stopped_entries, session_file,
    stream, stream_threads, delivered,
    occ, occ_threads, calls, us, us_threads, prox, prox_threads,
    u_active, u_config, u_start_time, u_status, ret, at, held, analysis>>

lidarVars ==
  <<state, telemetry_streaming_service, streaming,
    collecting, parameters, threads, current_telemetry>>

ultraVars ==
  <<u_active, u_config, u_start_time, u_status>>

\* the collector's session log, the entry count its stop printed and the
\* list in the JSON file at _file_path
logVars ==
  <<telemetry_entries, stopped_entries, session_file>>

\* LidarTelemetryStreamingService besides its _streaming flag
streamVars ==
  <<stream, stream_threads, delivered>>

\* OccupancyDetector
occVars ==
  <<occ, occ_threads>>

\* UltrasonicStreamingService
ultraStreamVars ==
  <<us, us_threads>>

\* ProximityDetector
proxVars ==
  <<prox, prox_threads>>

(***************************************************************************)
(* Bounds of the model.                                                    *)
(***************************************************************************)
MaxThreads == 2
MaxClock == 1
MaxErrors == 1
MaxScans == 1
MaxEntries == 2
MaxCount == 2
MaxIntervals == 2

(***************************************************************************)
(* Sentinels: a missing key / None for numbers and for strings.            *)
(***************************************************************************)
Absent == -1
None == -1
AbsentStr == "absent"

(***************************************************************************)
(* Inputs of the LiDAR configuration calls.                                *)
(***************************************************************************)
LidarConfig(rate, res, kind, lo, hi) ==
  [scan_rate_hz |-> rate, resolution |-> res,
   range_filter |-> [kind |-> kind, min_range_m |-> lo, max_range_m |-> hi]]

\* partial configurations: none, one field (valid, out of bounds), two fields
\* of which the second is invalid, a range with min = max, min > max, a bound
\* outside 0.1..100.0, a range filter that is not a dictionary
LidarConfigs ==
  {LidarConfig(Absent, AbsentStr, "absent", Absent, Absent),
   LidarConfig(0, AbsentStr, "absent", Absent, Absent),
   LidarConfig(510, AbsentStr, "absent", Absent, Absent),
   LidarConfig(200, AbsentStr, "absent", Absent, Absent),
   LidarConfig(200, "ultra", "absent", Absent, Absent),
   LidarConfig(Absent, AbsentStr, "dict", 300, Absent),
   LidarConfig(Absent, AbsentStr, "dict", 300, 5),
   LidarConfig(Absent, AbsentStr, "dict", 0, Absent),
   LidarConfig(200, AbsentStr, "dict", Absent, 1001),
   LidarConfig(Absent, AbsentStr, "notdict", Absent, Absent)}

NoConfig ==
  [scan_rate_hz |-> Absent, resolution |-> AbsentStr,
   range_filter |-> [kind |-> "absent", min_range_m |-> Absent,
                     max_range_m |-> Absent]]

ConfigKeys(config) ==
  (IF config.scan_rate_hz # Absent THEN {"scan_rate_hz"} ELSE {})
  \cup (IF config.resolution # AbsentStr THEN {"resolution"} ELSE {})
  \cup (IF config.range_filter.kind # "absent" THEN {"range_filter"} ELSE {})

\* what a call was given: no configuration, a rate only, or more
ArgClass(keys, rate_key) ==
  IF keys = {} THEN "none" ELSE IF keys = {rate_key} THEN "rate_only" ELSE "other"

(***************************************************************************)
(* LidarControlService.__init__: the _state dictionary.                    *)
(***************************************************************************)
DefaultRangeFilter ==
  [min_range_m |-> 5, max_range_m |-> 300]

InitState ==
  [active |-> FALSE, scan_rate_hz |-> 100, resolution |-> "medium",
   range_filter |-> DefaultRangeFilter, temperature |-> 350,
   status |-> "idle", last_started |-> None, last_stopped |-> None,
   total_scans |-> 0, error_count |-> 0]

\* the three keys of a parameter dictionary that the generation loop reads
Cfg(d) ==
  [scan_rate_hz |-> d.scan_rate_hz, resolution |-> d.resolution,
   range_filter |-> d.range_filter]

\* LidarDataCollector.__init__: _parameters = {}
EmptyParameters ==
  [scan_rate_hz |-> Absent, resolution |-> AbsentStr,
   range_filter |-> [min_range_m |-> Absent, max_range_m |-> Absent]]

\* _current_telemetry = None
NoTelemetry ==
  [scan_rate_hz |-> None, resolution |-> "none",
   range_filter |-> [min_range_m |-> None, max_range_m |-> None]]

\* a thread slot without a thread; recovered: the thread has been through the
\* error-recovery sleep of its except clause; seen: the values _parameters
\* had at the reads of the tick in progress (an observation); existing: the
\* list _save_telemetry_to_file has read from the file
NoThread ==
  [pc |-> "none", snap |-> NoTelemetry, fresh |-> FALSE, recovered |-> FALSE,
   seen |-> {}, existing |-> <<>>]

\* str.lower() on the resolution strings in use
Lower(s) ==
  CASE s = "HIGH" -> "high"
    [] s = "LOW" -> "low"
    [] s = "MEDIUM" -> "medium"
    [] OTHER -> s

(***************************************************************************)
(* LidarDataCollector                                                      *)
(***************************************************************************)
FreeSlots(th) ==
  {t \in DOMAIN th : th[t].pc = "none"}

LiveThreads(th) ==
  {t \in DOMAIN th : th[t].pc # "none"}

FirstFree(th) ==
  CHOOSE t \in FreeSlots(th) : \A u \in FreeSlots(th) : t <= u

\* threading.Thread(target=self._collection_loop).start(); the model has
\* MaxThreads thread slots
SpawnLoop(th) ==
  IF FreeSlots(th) = {} THEN th
  ELSE [th EXCEPT ![FirstFree(th)] = [NoThread EXCEPT !.pc = "while"]]

\* start_collection without its already-collecting guard
StartCollectionUnguarded(col, params, io_ok) ==
  IF io_ok
    THEN [collecting |-> TRUE, parameters |-> Cfg(params),
          threads |-> SpawnLoop(col.threads), raised |-> FALSE]
    ELSE [collecting |-> TRUE, parameters |-> Cfg(params),
          threads |-> col.threads, raised |-> TRUE]

\* start_collection(parameters); io_ok: creating data/temp and the session
\* file succeeds
StartCollection(col, params, io_ok) ==
  IF col.collecting
    THEN [collecting |-> col.collecting, parameters |-> col.parameters,
          threads |-> col.threads, raised |-> FALSE]
    ELSE IF io_ok
      THEN [collecting |-> TRUE, parameters |-> Cfg(params),
            threads |-> SpawnLoop(col.threads), raised |-> FALSE]
      ELSE [collecting |-> TRUE, parameters |-> Cfg(params),
            threads |-> col.threads, raised |-> TRUE]

\* stop_collection that forgets to clear the flag
StopCollectionKeepsFlag(c) ==
  c

\* stop_collection(): the new value of _collecting (the thread is not joined)
StopCollection(c) ==
  FALSE

\* update_parameters that drops the update
UpdateParametersDropped(params, d) ==
  params

\* update_parameters(parameters): dict.update with the control state
UpdateParameters(params, d) ==
  Cfg(d)

\* a control call returned: the ticks that are generating started before it
Stale(th) ==
  [t \in DOMAIN th |-> [th[t] EXCEPT !.fresh = FALSE]]

\* _generate_telemetry_data: parameters.get(key, default)
ReadParameters(params) ==
  [scan_rate_hz |-> IF params.scan_rate_hz = Absent THEN 100 ELSE params.scan_rate_hz,
   resolution |-> IF params.resolution = AbsentStr THEN "medium" ELSE params.resolution,
   range_filter |-> IF params.range_filter.min_range_m = Absent
                      THEN DefaultRangeFilter ELSE params.range_filter]

\* the threads that are inside a tick, between generation and storing
Generating(th) ==
  {t \in DOMAIN th : th[t].pc = "generate"}

\* get_current_telemetry without its not-collecting test
GetCurrentTelemetryAlways(coll, cur) ==
  cur

\* get_current_telemetry(): None unless collecting and a sample is stored
GetCurrentTelemetry(coll, cur) ==
  IF ~coll \/ cur = NoTelemetry THEN NoTelemetry ELSE cur

\* the except clause of _collection_loop that lets the exception end the thread
CollectionCaughtEnds ==
  NoThread

\* the except clause of _collection_loop: print, then time.sleep(1)
CollectionCaught ==
  [NoThread EXCEPT !.pc = "except"]

(***************************************************************************)
(* The loop threads of the streaming services and the detectors: a slot    *)
(* holds the position of its thread.                                       *)
(***************************************************************************)
NoThreads ==
  [t \in 1..MaxThreads |-> "none"]

FreePcs(th) ==
  {t \in DOMAIN th : th[t] = "none"}

\* threading.Thread(target=loop).start()
SpawnPc(th) ==
  IF FreePcs(th) = {} THEN th
  ELSE [th EXCEPT ![CHOOSE t \in FreePcs(th) : \A u \in FreePcs(th) : t <= u] = "while"]

(***************************************************************************)
(* LidarControlService._apply_configuration, field by field.  Each step    *)
(* yields the state dictionary after it and whether it raised ValueError.  *)
(***************************************************************************)
\* scan-rate step that stores the value before it validates it
ApplyScanRateStoresFirst(st, config) ==
  IF config.scan_rate_hz = Absent
    THEN [st |-> st, raised |-> FALSE]
    ELSE [st |-> [st EXCEPT !.scan_rate_hz = config.scan_rate_hz],
          raised |-> ~(10 <= config.scan_rate_hz /\ config.scan_rate_hz <= 500)]

\* 1.0 <= scan_rate <= 50.0
ApplyScanRate(st, config) ==
  IF config.scan_rate_hz = Absent
    THEN [st |-> st, raised |-> FALSE]
    ELSE IF 10 <= config.scan_rate_hz /\ config.scan_rate_hz <= 500
      THEN [st |-> [st EXCEPT !.scan_rate_hz = config.scan_rate_hz], raised |-> FALSE]
      ELSE [st |-> st, raised |-> TRUE]

\* resolution.lower() in ['high', 'medium', 'low']
ApplyResolution(st, config) ==
  IF config.resolution = AbsentStr
    THEN [st |-> st, raised |-> FALSE]
    ELSE IF Lower(config.resolution) \in {"high", "medium", "low"}
      THEN [st |-> [st EXCEPT !.resolution = Lower(config.resolution)], raised |-> FALSE]
      ELSE [st |-> st, raised |-> TRUE]

\* range_filter.get(key, current value)
RangeGet(value, current) ==
  IF value = Absent THEN current ELSE value

\* 0.1 <= min_range <= max_range <= 100.0
ApplyRangeFilter(st, config) ==
  IF config.range_filter.kind = "absent"
    THEN [st |-> st, raised |-> FALSE]
    ELSE IF config.range_filter.kind = "dict"
      THEN LET min_range == RangeGet(config.range_filter.min_range_m, st.range_filter.min_range_m)
               max_range == RangeGet(config.range_filter.max_range_m, st.range_filter.max_range_m)
           IN IF 1 <= min_range /\ min_range <= max_range /\ max_range <= 1000
                THEN [st |-> [st EXCEPT !.range_filter =
                                [min_range_m |-> min_range, max_range_m |-> max_range]],
                      raised |-> FALSE]
                ELSE [st |-> st, raised |-> TRUE]
      ELSE [st |-> st, raised |-> TRUE]

\* _apply_configuration(config): the state dictionary and the collector's
\* parameters after the call, and whether it raised
ApplyConfiguration(st, params, config) ==
  LET r1 == ApplyScanRate(st, config)
      r2 == ApplyResolution(r1.st, config)
      r3 == ApplyRangeFilter(r2.st, config)
  IN IF r1.raised THEN [st |-> r1.st, parameters |-> params, raised |-> TRUE]
     ELSE IF r2.raised THEN [st |-> r2.st, parameters |-> params, raised |-> TRUE]
     ELSE IF r3.raised THEN [st |-> r3.st, parameters |-> params, raised |-> TRUE]
     ELSE [st |-> r3.st,
           parameters |-> IF r3.st.active THEN UpdateParameters(params, r3.st) ELSE params,
           raised |-> FALSE]

(***************************************************************************)
(* LidarTelemetryStreamingService.  The callback is the one core/api.py    *)
(* passes at construction, the collector the one sensors/lidar wires in.   *)
(***************************************************************************)
\* start_streaming(streaming_interval: float = 1.0); every caller uses the
\* default
DefaultStreamingInterval ==
  10

\* __init__: _streaming_interval, _stream_count, _start_time
InitStream ==
  [interval |-> DefaultStreamingInterval, count |-> 0, start_time |-> None]

\* what the publish callback completed since the last successful
\* start_streaming, and the sample it was last handed
NoDeliveries ==
  [count |-> 0, sample |-> NoTelemetry]

\* start_streaming without its already-streaming test
StartStreamingFieldsUnguarded(is_streaming, s, interval, t0) ==
  [interval |-> interval, count |-> 0, start_time |-> t0]

\* start_streaming(interval): _streaming_interval, _stream_count, _start_time
\* after the call
StartStreamingFields(is_streaming, s, interval, t0) ==
  IF is_streaming THEN s
  ELSE [interval |-> interval, count |-> 0, start_time |-> t0]

\* the except clause of _streaming_loop that lets the exception end the thread
StreamingCaughtEnds ==
  "none"

\* the except clause of _streaming_loop: print, then time.sleep(1)
StreamingCaught ==
  "except"

\* start_streaming(): the new value of _streaming
StartStreamingFlag(s) ==
  TRUE

\* stop_streaming that leaves the flag set
StopStreamingKeepsFlag(s) ==
  s

\* stop_streaming(): the new value of _streaming
StopStreamingFlag(s) ==
  FALSE

(***************************************************************************)
(* Return values.  A key the returned dictionary lacks is "absent".        *)
(***************************************************************************)
\* current_state() as returned by start/stop/reset
StateResult(op, st, pre_active, arg) ==
  [op |-> op, raised |-> FALSE, error |-> FALSE, success |-> "absent",
   active |-> IF st.active THEN "true" ELSE "false", status |-> st.status,
   pre_active |-> pre_active, arg |-> arg]

\* the dictionary of an except branch of start/stop/reset
ErrorResult(op, active, pre_active, arg) ==
  [op |-> op, raised |-> FALSE, error |-> TRUE, success |-> "absent",
   active |-> active, status |-> "error", pre_active |-> pre_active, arg |-> arg]

\* apply_config: the applied configuration, or the ValueError it raises
ApplyResult(raised, pre_active, arg) ==
  [op |-> "apply_config", raised |-> raised, error |-> FALSE, success |-> "absent",
   active |-> "absent", status |-> "absent", pre_active |-> pre_active, arg |-> arg]

\* the result dictionaries of UltrasonicControlService
UltraResult(op, success, active, pre_active, arg) ==
  [op |-> op, raised |-> FALSE, error |-> FALSE,
   success |-> IF success THEN "true" ELSE "false",
   active |-> IF active THEN "true" ELSE "false", status |-> "absent",
   pre_active |-> pre_active, arg |-> arg]

\* the result dictionaries of the streaming services and the detectors;
\* pre_active: the service's running flag when the call was made
ServiceResult(op, success, running, arg) ==
  [op |-> op, raised |-> FALSE, error |-> FALSE,
   success |-> IF success THEN "true" ELSE "false",
   active |-> "absent", status |-> "absent", pre_active |-> running, arg |-> arg]

NoResult ==
  [op |-> "none", raised |-> FALSE, error |-> FALSE, success |-> "absent",
   active |-> "absent", status |-> "absent", pre_active |-> FALSE, arg |-> "none"]

(***************************************************************************)
(* OccupancyDetector.process_telemetry_data, the hook the generation loop  *)
(* calls with each stored sample.  detected is the outcome of              *)
(* _analyze_point_cloud (a random draw), cb_ok whether the publish         *)
(* callback returns rather than raises.                                    *)
(***************************************************************************)
\* __init__; the callback is the one core/api.py passes at construction
InitOcc ==
  [detecting |-> FALSE, detection_count |-> 0, current_occupancy |-> FALSE,
   start_time |-> None]

\* what the detectors' publish callbacks saw: invocations, results computed
\* with detected true, invocations announcing a cleared state, and what the
\* last process_telemetry_data call returned; for the proximity detector
\* also the sensors the last call found alerting and the alert of its result
\* (NoAlert: the call returned None)
NoAlert ==
  [sensor_id |-> None, distance_cm |-> None, duration |-> None]

NoCalls ==
  [invoked |-> 0, detected |-> 0, cleared |-> 0, result |-> "never",
   alerting |-> {}, alert |-> NoAlert]

\* self._telemetry_callback(result): one invocation of a detector's publish
\* callback with a result whose detected value is given
Publish(c, detected) ==
  [c EXCEPT !.invoked = c.invoked + 1,
            !.cleared = c.cleared + (IF detected THEN 0 ELSE 1)]

\* the try block: state update, then the callback when occupancy is detected;
\* an exception of the callback is caught and None returned
OccAnalyse(o, c, detected, cb_ok) ==
  LET c1 == [c EXCEPT !.detected = c.detected + (IF detected THEN 1 ELSE 0)]
      c2 == IF detected THEN Publish(c1, detected) ELSE c1
  IN [occ |-> [o EXCEPT !.current_occupancy = detected,
                        !.detection_count = o.detection_count + 1],
      calls |-> [c2 EXCEPT !.result = IF detected /\ ~cb_ok THEN "error"
                                      ELSE IF detected THEN "detected" ELSE "clear"]]

\* process_telemetry_data(telemetry_data)
OccProcess(o, c, detected, cb_ok) ==
  IF ~o.detecting
    THEN [occ |-> o, calls |-> [c EXCEPT !.result = "not_detecting"]]
    ELSE OccAnalyse(o, c, detected, cb_ok)

(***************************************************************************)
(* LidarControlService operations.  Each holds the service lock for the    *)
(* whole call, and the collector's lock inside the collector calls.        *)
(***************************************************************************)
\* start() that refuses to start while the error counter is not zero
StartedUnlessErrors(st, t0) ==
  IF st.error_count > 0 THEN st
  ELSE [st EXCEPT !.active = TRUE, !.status = "operational",
                  !.last_started = t0, !.error_count = 0]

\* start(): the state dictionary after the four assignments that follow the
\* configuration
Started(st, t0) ==
  [st EXCEPT !.active = TRUE, !.status = "operational",
             !.last_started = t0, !.error_count = 0]

\* start(config)
LidarStart(config, io_ok) ==
  /\ family = "lidar"
  /\ LET keys == ConfigKeys(config)
         r == IF keys # {} THEN ApplyConfiguration(state, parameters, config)
              ELSE [st |-> state, parameters |-> parameters, raised |-> FALSE]
         st2 == Started(r.st, now)
         starts == telemetry_streaming_service /\ ~streaming
         str2 == IF starts THEN StartStreamingFlag(streaming) ELSE streaming
         col == StartCollection([collecting |-> collecting, parameters |-> r.parameters,
                                 threads |-> threads], st2, io_ok)
     IN IF r.raised
          THEN /\ state.error_count < MaxErrors
               /\ state' = [r.st EXCEPT !.status = "error",
                                        !.error_count = r.st.error_count + 1]
               /\ ret' = ErrorResult("start", "false", state.active, ArgClass(keys, "scan_rate_hz"))
               /\ threads' = Stale(threads)
               /\ UNCHANGED <<streaming, collecting, parameters, streamVars,
                              session_file>>
          ELSE /\ collecting \/ ~io_ok \/ FreeSlots(threads) # {}
               /\ ~starts \/ FreePcs(stream_threads) # {}
               /\ streaming' = str2
               /\ stream' = IF telemetry_streaming_service
                              THEN StartStreamingFields(streaming, stream,
                                                        DefaultStreamingInterval, now)
                              ELSE stream
               /\ stream_threads' = IF starts THEN SpawnPc(stream_threads) ELSE stream_threads
               /\ delivered' = IF starts THEN NoDeliveries ELSE delivered
               /\ collecting' = col.collecting
               /\ parameters' = col.parameters
               /\ threads' = Stale(col.threads)
               /\ session_file' = IF collecting THEN session_file ELSE <<>>
               /\ IF col.raised
                    THEN /\ state' = [st2 EXCEPT !.status = "error", !.error_count = 1]
                         /\ ret' = ErrorResult("start", "false", state.active, ArgClass(keys, "scan_rate_hz"))
                    ELSE /\ state' = st2
                         /\ ret' = StateResult("start", st2, state.active, ArgClass(keys, "scan_rate_hz"))
  /\ UNCHANGED <<family, scenario, at, held, analysis, now, telemetry_streaming_service, current_telemetry,
                 telemetry_entries, stopped_entries, occVars, calls,
                 ultraStreamVars, proxVars, ultraVars>>

\* the calls of stop() that can raise
StopFailures ==
  {"none", "collector", "streaming"}

\* the except clause of stop() that also clears the active flag
StopFailedClearsActive(st) ==
  [st EXCEPT !.active = FALSE, !.status = "error", !.error_count = st.error_count + 1]

\* the except clause of stop()
StopFailed(st) ==
  [st EXCEPT !.status = "error", !.error_count = st.error_count + 1]

\* stop(); fail: the call whose reporting raises, after it cleared its flag
LidarStop(fail) ==
  /\ family = "lidar"
  /\ LET st2 == [state EXCEPT !.active = FALSE, !.status = "idle", !.last_stopped = now]
     IN /\ collecting' = IF collecting THEN StopCollection(collecting) ELSE collecting
        /\ stopped_entries' = IF collecting THEN Len(telemetry_entries) ELSE stopped_entries
        /\ streaming' = IF fail # "collector" /\ telemetry_streaming_service /\ streaming
                          THEN StopStreamingFlag(streaming) ELSE streaming
        /\ IF fail = "none"
             THEN /\ state' = st2
                  /\ ret' = StateResult("stop", st2, state.active, "none")
             ELSE /\ state.error_count < MaxErrors
                  /\ state' = StopFailed(state)
                  /\ ret' = ErrorResult("stop", "true", state.active, "none")
  /\ threads' = Stale(threads)
  /\ UNCHANGED <<family, scenario, at, held, analysis, now, telemetry_streaming_service, parameters,
                 current_telemetry, telemetry_entries, session_file, streamVars,
                 occVars, calls,
                 ultraStreamVars, proxVars, ultraVars>>

\* reset() that leaves the error counter alone
ResetDefaultsKeepsErrors(st) ==
  [st EXCEPT !.active = FALSE, !.scan_rate_hz = 100, !.resolution = "medium",
             !.range_filter = DefaultRangeFilter, !.status = "idle",
             !.total_scans = 0, !.last_started = None, !.last_stopped = None]

\* reset(): self._state.update({... defaults ...})
ResetDefaults(st) ==
  [st EXCEPT !.active = FALSE, !.scan_rate_hz = 100, !.resolution = "medium",
             !.range_filter = DefaultRangeFilter, !.status = "idle",
             !.total_scans = 0, !.error_count = 0,
             !.last_started = None, !.last_stopped = None]

\* reset()
LidarReset ==
  /\ family = "lidar"
  /\ IF state.active
       THEN /\ collecting' = IF collecting THEN StopCollection(collecting) ELSE collecting
            /\ stopped_entries' = IF collecting THEN Len(telemetry_entries)
                                  ELSE stopped_entries
            /\ streaming' = IF telemetry_streaming_service /\ streaming
                              THEN StopStreamingFlag(streaming) ELSE streaming
       ELSE UNCHANGED <<collecting, stopped_entries, streaming>>
  /\ state' = ResetDefaults(state)
  /\ ret' = StateResult("reset", ResetDefaults(state), state.active, "none")
  /\ threads' = Stale(threads)
  /\ UNCHANGED <<family, scenario, at, held, analysis, now, telemetry_streaming_service, parameters,
                 current_telemetry, telemetry_entries, session_file, streamVars,
                 occVars, calls,
                 ultraStreamVars, proxVars, ultraVars>>

\* apply_config(scan_rate_hz, resolution, range_filter)
LidarApplyConfig(config) ==
  /\ family = "lidar"
  /\ LET r == ApplyConfiguration(state, parameters, config)
     IN /\ state' = r.st
        /\ parameters' = r.parameters
        /\ ret' = ApplyResult(r.raised, state.active, ArgClass(ConfigKeys(config), "scan_rate_hz"))
  /\ threads' = Stale(threads)
  /\ UNCHANGED <<family, scenario, at, held, analysis, now, telemetry_streaming_service, streaming, collecting,
                 current_telemetry, logVars, streamVars, occVars, calls,
                 ultraStreamVars, proxVars, ultraVars>>

\* increment_scan_count()
IncrementScanCount ==
  /\ family = "lidar"
  /\ state.total_scans < MaxScans
  /\ state' = [state EXCEPT !.total_scans = state.total_scans + 1]
  /\ UNCHANGED <<family, scenario, at, held, analysis, now, telemetry_streaming_service, streaming, collecting,
                 parameters, threads, current_telemetry, logVars, streamVars, occVars,
                 calls, ultraStreamVars, proxVars, ultraVars, ret>>

\* lidar_streaming_service.start_streaming() called by the command router
StartStreaming ==
  /\ family = "lidar"
  /\ streaming \/ FreePcs(stream_threads) # {}
  /\ streaming' = StartStreamingFlag(streaming)
  /\ stream' = StartStreamingFields(streaming, stream, DefaultStreamingInterval, now)
  /\ stream_threads' = IF streaming THEN stream_threads ELSE SpawnPc(stream_threads)
  /\ delivered' = IF streaming THEN delivered ELSE NoDeliveries
  /\ ret' = ServiceResult("start_streaming", ~streaming, streaming, "none")
  /\ UNCHANGED <<family, scenario, at, held, analysis, now, state, telemetry_streaming_service, collecting,
                 parameters, threads, current_telemetry, logVars, occVars, calls,
                 ultraStreamVars, proxVars, ultraVars>>

\* lidar_streaming_service.stop_streaming() called by the command router
StopStreaming ==
  /\ family = "lidar"
  /\ streaming' = IF streaming THEN StopStreamingFlag(streaming) ELSE streaming
  /\ ret' = ServiceResult("stop_streaming", streaming, streaming, "none")
  /\ UNCHANGED <<family, scenario, at, held, analysis, now, state, telemetry_streaming_service, collecting,
                 parameters, threads, current_telemetry, logVars, streamVars, occVars,
                 calls, ultraStreamVars, proxVars, ultraVars>>

(***************************************************************************)
(* LidarDataCollector._collection_loop, one thread t.                      *)
(***************************************************************************)
\* while self._collecting: true, the tick starts and generation reads the
\* parameters; the session log holds at most MaxEntries samples
LoopGenerate(t) ==
  /\ family = "lidar"
  /\ threads[t].pc = "while"
  /\ collecting
  /\ Len(telemetry_entries) + Cardinality(Generating(threads)) < MaxEntries
  /\ threads' = [threads EXCEPT ![t] = [threads[t] EXCEPT !.pc = "generate",
                                          !.snap = ReadParameters(parameters),
                                          !.fresh = TRUE]]
  /\ UNCHANGED <<family, scenario, at, held, analysis, now, state, telemetry_streaming_service, streaming,
                 collecting, parameters, current_telemetry, logVars, streamVars,
                 occVars, calls, ultraStreamVars, proxVars, ultraVars, ret>>

\* the sample is stored as current telemetry and appended to the session
\* log, the file is rewritten with the sample appended, the occupancy
\* detector's hook is called with the sample, the thread sleeps
LoopStore(t, detected, cb_ok) ==
  /\ family = "lidar"
  /\ threads[t].pc = "generate"
  /\ current_telemetry' = threads[t].snap
  /\ telemetry_entries' = Append(telemetry_entries, threads[t].snap)
  /\ session_file' = Append(session_file, threads[t].snap)
  /\ LET hook == OccProcess(occ, calls, detected, cb_ok)
     IN /\ occ' = hook.occ
        /\ calls' = hook.calls
  /\ threads' = [threads EXCEPT ![t] = [threads[t] EXCEPT !.pc = "while",
                                          !.snap = NoTelemetry, !.fresh = FALSE]]
  /\ UNCHANGED <<family, scenario, at, held, analysis, now, state, telemetry_streaming_service, streaming,
                 collecting, parameters, stopped_entries, streamVars, occ_threads,
                 ultraStreamVars, proxVars, ultraVars, ret>>

\* the generation raises: the except clause prints and sleeps one second
LoopRaise(t) ==
  /\ family = "lidar"
  /\ threads[t].pc = "generate"
  /\ threads' = [threads EXCEPT ![t] = CollectionCaught]
  /\ UNCHANGED <<family, scenario, at, held, analysis, now, state, telemetry_streaming_service, streaming,
                 collecting, parameters, current_telemetry, logVars, streamVars,
                 occVars, calls, ultraStreamVars, proxVars, ultraVars, ret>>

\* the error-recovery sleep ends: back to the loop test
LoopRecover(t) ==
  /\ family = "lidar"
  /\ threads[t].pc = "except"
  /\ threads' = [threads EXCEPT ![t] = [threads[t] EXCEPT !.pc = "while",
                                          !.recovered = TRUE]]
  /\ UNCHANGED <<family, scenario, at, held, analysis, now, state, telemetry_streaming_service, streaming,
                 collecting, parameters, current_telemetry, logVars, streamVars,
                 occVars, calls, ultraStreamVars, proxVars, ultraVars, ret>>

\* while self._collecting: false, the loop ends
LoopExit(t) ==
  /\ family = "lidar"
  /\ threads[t].pc = "while"
  /\ ~collecting
  /\ threads' = [threads EXCEPT ![t] = NoThread]
  /\ UNCHANGED <<family, scenario, at, held, analysis, now, state, telemetry_streaming_service, streaming,
                 collecting, parameters, current_telemetry, logVars, streamVars,
                 occVars, calls, ultraStreamVars, proxVars, ultraVars, ret>>

\* time passes
Tick ==
  /\ now < MaxClock
  /\ now' = now + 1
  /\ UNCHANGED <<family, scenario, at, held, analysis, lidarVars, logVars, streamVars, occVars, calls,
                 ultraStreamVars, proxVars, ultraVars, ret>>

(***************************************************************************)
(* UltrasonicControlService                                                *)
(***************************************************************************)
UltraConfig(sensors, rate, hi, lo, tc, nf) ==
  [sensors_enabled |-> sensors, sample_rate_hz |-> rate, max_range_cm |-> hi,
   min_range_cm |-> lo, temperature_compensation |-> tc, noise_filtering |-> nf]

\* partial configurations: none, one field (valid, out of bounds), a valid
\* field followed by an invalid one, bounds that are valid one by one and
\* out of order together
UltrasonicConfigs ==
  {UltraConfig(Absent, Absent, Absent, Absent, Absent, Absent),
   UltraConfig(Absent, 0, Absent, Absent, Absent, Absent),
   UltraConfig(Absent, 50, Absent, Absent, Absent, Absent),
   UltraConfig(25, 2000, Absent, Absent, Absent, Absent),
   UltraConfig(50, Absent, Absent, Absent, Absent, Absent),
   UltraConfig(Absent, Absent, 10, 50, Absent, Absent),
   UltraConfig(Absent, Absent, 600, Absent, Absent, Absent),
   UltraConfig(Absent, Absent, Absent, 0, 0, Absent),
   UltraConfig(Absent, Absent, Absent, Absent, 0, 0)}

UltraKeys(config) ==
  {k \in {"sensors_enabled", "sample_rate_hz", "max_range_cm", "min_range_cm",
          "temperature_compensation", "noise_filtering"} : config[k] # Absent}

\* __init__ and reset(): the default _config
DefaultUltraConfig ==
  [sensors_enabled |-> 4, sample_rate_hz |-> 100, max_range_cm |-> 400,
   min_range_cm |-> 5, temperature_compensation |-> TRUE, noise_filtering |-> TRUE]

\* int(x) of a value given in tenths
IntOfTenths(x) ==
  x \div 10

\* bool(x)
BoolOf(x) ==
  x # 0

\* _apply_config step: 1 <= int(sensors_enabled) <= 4
UApplySensors(cfg, config) ==
  IF config.sensors_enabled = Absent
    THEN [cfg |-> cfg, raised |-> FALSE]
    ELSE IF 1 <= IntOfTenths(config.sensors_enabled) /\ IntOfTenths(config.sensors_enabled) <= 4
      THEN [cfg |-> [cfg EXCEPT !.sensors_enabled = IntOfTenths(config.sensors_enabled)],
            raised |-> FALSE]
      ELSE [cfg |-> cfg, raised |-> TRUE]

\* _apply_config step: 0.1 <= sample_rate <= 100.0
UApplySampleRate(cfg, config) ==
  IF config.sample_rate_hz = Absent
    THEN [cfg |-> cfg, raised |-> FALSE]
    ELSE IF 1 <= config.sample_rate_hz /\ config.sample_rate_hz <= 1000
      THEN [cfg |-> [cfg EXCEPT !.sample_rate_hz = config.sample_rate_hz], raised |-> FALSE]
      ELSE [cfg |-> cfg, raised |-> TRUE]

\* _apply_config step: 10 <= max_range <= 500
UApplyMaxRange(cfg, config) ==
  IF config.max_range_cm = Absent
    THEN [cfg |-> cfg, raised |-> FALSE]
    ELSE IF 10 <= config.max_range_cm /\ config.max_range_cm <= 500
      THEN [cfg |-> [cfg EXCEPT !.max_range_cm = config.max_range_cm], raised |-> FALSE]
      ELSE [cfg |-> cfg, raised |-> TRUE]

\* _apply_config step: 1 <= min_range <= 50
UApplyMinRange(cfg, config) ==
  IF config.min_range_cm = Absent
    THEN [cfg |-> cfg, raised |-> FALSE]
    ELSE IF 1 <= config.min_range_cm /\ config.min_range_cm <= 50
      THEN [cfg |-> [cfg EXCEPT !.min_range_cm = config.min_range_cm], raised |-> FALSE]
      ELSE [cfg |-> cfg, raised |-> TRUE]

\* _apply_config steps: the two boolean options
UApplyFlags(cfg, config) ==
  [cfg EXCEPT
     !.temperature_compensation =
        IF config.temperature_compensation = Absent THEN @
        ELSE BoolOf(config.temperature_compensation),
     !.noise_filtering =
        IF config.noise_filtering = Absent THEN @ ELSE BoolOf(config.noise_filtering)]

\* _apply_config(config): the _config after the call and whether it raised
UApplyConfigResult(cfg, config) ==
  LET r1 == UApplySensors(cfg, config)
      r2 == UApplySampleRate(r1.cfg, config)
      r3 == UApplyMaxRange(r2.cfg, config)
      r4 == UApplyMinRange(r3.cfg, config)
      c5 == UApplyFlags(r4.cfg, config)
  IN IF r1.raised THEN r1
     ELSE IF r2.raised THEN r2
     ELSE IF r3.raised THEN r3
     ELSE IF r4.raised THEN r4
     ELSE [cfg |-> c5, raised |-> c5.min_range_cm >= c5.max_range_cm]

\* start(config)
UltrasonicStart(config) ==
  /\ family = "ultrasonic"
  /\ LET keys == UltraKeys(config)
         r == IF keys # {} THEN UApplyConfigResult(u_config, config)
              ELSE [cfg |-> u_config, raised |-> FALSE]
     IN IF u_active
          THEN /\ ret' = UltraResult("start", FALSE, TRUE, u_active, ArgClass(keys, "sample_rate_hz"))
               /\ UNCHANGED ultraVars
          ELSE IF r.raised
            THEN /\ u_config' = r.cfg
                 /\ u_status' = "error"
                 /\ ret' = UltraResult("start", FALSE, FALSE, u_active, ArgClass(keys, "sample_rate_hz"))
                 /\ UNCHANGED <<u_active, u_start_time>>
            ELSE /\ u_config' = r.cfg
                 /\ u_active' = TRUE
                 /\ u_start_time' = now
                 /\ u_status' = "operational"
                 /\ ret' = UltraResult("start", TRUE, TRUE, u_active, ArgClass(keys, "sample_rate_hz"))
  /\ UNCHANGED <<family, scenario, at, held, analysis, now, lidarVars, logVars, streamVars, occVars, calls,
               ultraStreamVars, proxVars>>

\* stop()
UltrasonicStop ==
  /\ family = "ultrasonic"
  /\ IF ~u_active
       THEN /\ ret' = UltraResult("stop", FALSE, FALSE, u_active, "none")
            /\ UNCHANGED ultraVars
       ELSE /\ u_active' = FALSE
            /\ u_status' = "stopped"
            /\ ret' = UltraResult("stop", TRUE, FALSE, u_active, "none")
            /\ UNCHANGED <<u_config, u_start_time>>
  /\ UNCHANGED <<family, scenario, at, held, analysis, now, lidarVars, logVars, streamVars, occVars, calls,
               ultraStreamVars, proxVars>>

\* reset()
UltrasonicReset ==
  /\ family = "ultrasonic"
  /\ u_active' = FALSE
  /\ u_config' = DefaultUltraConfig
  /\ u_status' = "reset"
  /\ ret' = UltraResult("reset", TRUE, FALSE, u_active, "none")
  /\ UNCHANGED <<family, scenario, at, held, analysis, now, lidarVars, logVars, streamVars, occVars, calls,
               ultraStreamVars, proxVars, u_start_time>>

\* apply_config(**kwargs)
UltrasonicApplyConfig(config) ==
  /\ family = "ultrasonic"
  /\ LET r == UApplyConfigResult(u_config, config)
     IN /\ u_config' = r.cfg
        /\ ret' = ApplyResult(r.raised, u_active, ArgClass(UltraKeys(config), "sample_rate_hz"))
  /\ UNCHANGED <<family, scenario, at, held, analysis, now, lidarVars, logVars, streamVars, occVars, calls,
               ultraStreamVars, proxVars, u_active, u_start_time, u_status>>

(***************************************************************************)
(* LidarTelemetryStreamingService._streaming_loop, one thread t.           *)
(* cb_ok: the publish callback returns rather than raises.                 *)
(***************************************************************************)
Published(th) ==
  {t \in DOMAIN th : th[t] = "published"}

\* one pass of the loop body up to the callback: read the collector's
\* current sample and hand it to the callback; without a sample the tick is
\* skipped; the transmission counter holds at most MaxCount
StreamTick(t, cb_ok) ==
  /\ family = "lidar"
  /\ stream_threads[t] = "while"
  /\ streaming
  /\ stream.count + Cardinality(Published(stream_threads)) < MaxCount
  /\ LET telemetry_data == GetCurrentTelemetry(collecting, current_telemetry)
     IN IF telemetry_data = NoTelemetry
          THEN /\ stream_threads' = [stream_threads EXCEPT ![t] = "idle"]
               /\ UNCHANGED delivered
          ELSE IF cb_ok
            THEN /\ stream_threads' = [stream_threads EXCEPT ![t] = "published"]
                 /\ delivered' = [count |-> delivered.count + 1,
                                  sample |-> telemetry_data]
            ELSE /\ stream_threads' = [stream_threads EXCEPT ![t] = StreamingCaught]
                 /\ UNCHANGED delivered
  /\ UNCHANGED <<family, scenario, at, held, analysis, now, lidarVars, logVars, stream, occVars, calls,
                 ultraStreamVars, proxVars, ultraVars, ret>>

\* with self._lock: self._stream_count += 1, then the interval sleep
StreamCount(t) ==
  /\ family = "lidar"
  /\ stream_threads[t] = "published"
  /\ stream' = [stream EXCEPT !.count = stream.count + 1]
  /\ stream_threads' = [stream_threads EXCEPT ![t] = "while"]
  /\ UNCHANGED <<family, scenario, at, held, analysis, now, lidarVars, logVars, delivered, occVars, calls,
                 ultraStreamVars, proxVars, ultraVars, ret>>

\* the sleep of a skipped tick or of the except clause ends
StreamRecover(t) ==
  /\ family = "lidar"
  /\ stream_threads[t] \in {"idle", "except"}
  /\ stream_threads' = [stream_threads EXCEPT ![t] = "while"]
  /\ UNCHANGED <<family, scenario, at, held, analysis, now, lidarVars, logVars, stream, delivered, occVars,
                 calls, ultraStreamVars, proxVars, ultraVars, ret>>

\* while self._streaming: false, the loop ends
StreamExit(t) ==
  /\ family = "lidar"
  /\ stream_threads[t] = "while"
  /\ ~streaming
  /\ stream_threads' = [stream_threads EXCEPT ![t] = "none"]
  /\ UNCHANGED <<family, scenario, at, held, analysis, now, lidarVars, logVars, stream, delivered, occVars,
                 calls, ultraStreamVars, proxVars, ultraVars, ret>>

(***************************************************************************)
(* OccupancyDetector: start_detection, stop_detection and the polling      *)
(* loop _detection_loop, one thread t.                                     *)
(***************************************************************************)
\* start_detection()
StartDetection ==
  /\ family = "lidar"
  /\ occ.detecting \/ FreePcs(occ_threads) # {}
  /\ IF occ.detecting
       THEN UNCHANGED occVars
       ELSE /\ occ' = [occ EXCEPT !.detecting = TRUE, !.detection_count = 0,
                                  !.start_time = now]
            /\ occ_threads' = SpawnPc(occ_threads)
  /\ ret' = ServiceResult("start_detection", ~occ.detecting, occ.detecting, "none")
  /\ UNCHANGED <<family, scenario, at, held, analysis, now, lidarVars, logVars, streamVars, calls,
                 ultraStreamVars, proxVars, ultraVars>>

\* stop_detection()
StopDetection ==
  /\ family = "lidar"
  /\ occ' = IF occ.detecting THEN [occ EXCEPT !.detecting = FALSE] ELSE occ
  /\ ret' = ServiceResult("stop_detection", occ.detecting, occ.detecting, "none")
  /\ UNCHANGED <<family, scenario, at, held, analysis, now, lidarVars, logVars, streamVars, occ_threads,
                 calls, ultraStreamVars, proxVars, ultraVars>>

\* one pass of the polling loop: _detect_occupancy() always has a result;
\* when it is detected the callback is invoked, then the counter and the
\* current occupancy are updated; a raising callback skips the update
OccPoll(t, detected, cb_ok) ==
  /\ family = "lidar"
  /\ occ_threads[t] = "while"
  /\ occ.detecting
  /\ occ.detection_count < MaxCount
  /\ calls.detected < MaxCount
  /\ LET c1 == [calls EXCEPT !.detected = calls.detected + (IF detected THEN 1 ELSE 0)]
     IN IF detected /\ ~cb_ok
          THEN /\ calls' = Publish(c1, detected)
               /\ occ_threads' = [occ_threads EXCEPT ![t] = "except"]
               /\ UNCHANGED occ
          ELSE /\ calls' = IF detected THEN Publish(c1, detected) ELSE c1
               /\ occ' = [occ EXCEPT !.detection_count = occ.detection_count + 1,
                                     !.current_occupancy = detected]
               /\ UNCHANGED occ_threads
  /\ UNCHANGED <<family, scenario, at, held, analysis, now, lidarVars, logVars, streamVars,
                 ultraStreamVars, proxVars, ultraVars, ret>>

\* the error-recovery sleep ends
OccRecover(t) ==
  /\ family = "lidar"
  /\ occ_threads[t] = "except"
  /\ occ_threads' = [occ_threads EXCEPT ![t] = "while"]
  /\ UNCHANGED <<family, scenario, at, held, analysis, now, lidarVars, logVars, streamVars, occ, calls,
                 ultraStreamVars, proxVars, ultraVars, ret>>

\* while self._detecting: false, the loop ends
OccExit(t) ==
  /\ family = "lidar"
  /\ occ_threads[t] = "while"
  /\ ~occ.detecting
  /\ occ_threads' = [occ_threads EXCEPT ![t] = "none"]
  /\ UNCHANGED <<family, scenario, at, held, analysis, now, lidarVars, logVars, streamVars, occ, calls,
                 ultraStreamVars, proxVars, ultraVars, ret>>

(***************************************************************************)
(* ProximityDetector.  A sample gives each of the four sensors a distance  *)
(* in cm and a confidence in hundredths.                                   *)
(***************************************************************************)
SensorIds ==
  1..4

\* __init__: self._sensor_thresholds, 50 cm for every sensor
SensorThreshold ==
  50

\* __init__: self._confidence_threshold = 0.8
ConfidenceThreshold ==
  80

Reading(distance, confidence) ==
  [distance_cm |-> distance, confidence |-> confidence]

\* samples: nothing near, sensor 1 near, sensors 1 and 2 near with 2 the
\* closer, sensor 1 near with a confidence below the threshold
UltraSamples ==
  {[s \in SensorIds |-> Reading(200, 90)],
   [s \in SensorIds |-> IF s = 1 THEN Reading(30, 97) ELSE Reading(200, 90)],
   [s \in SensorIds |-> IF s = 1 THEN Reading(30, 97)
                        ELSE IF s = 2 THEN Reading(20, 97) ELSE Reading(200, 90)],
   [s \in SensorIds |-> IF s = 1 THEN Reading(30, 50) ELSE Reading(200, 90)]}

\* self._alert_duration_tracking = {}
NoTracking ==
  [s \in SensorIds |-> None]

\* a sensor id as a key of the thresholds dictionary, in tenths: the id of
\* an update request is whatever number the RPC carries, 2.5 included
ChannelKey(s) ==
  10 * s

\* __init__: self._sensor_thresholds = {1: 50, 2: 50, 3: 50, 4: 50}
InitThresholds ==
  [k \in {ChannelKey(s) : s \in SensorIds} |-> SensorThreshold]

\* self._sensor_thresholds.get(sensor_id, 50)
ThresholdGet(th, s) ==
  IF ChannelKey(s) \in DOMAIN th THEN th[ChannelKey(s)] ELSE SensorThreshold

\* __init__; the detector is created by get_ultrasonic_streaming_service,
\* which passes no callback, and nothing sets one afterwards
InitProx ==
  [detecting |-> FALSE, callback |-> FALSE, detection_count |-> 0,
   start_time |-> None, tracking |-> NoTracking,
   thresholds |-> InitThresholds, confidence_threshold |-> ConfidenceThreshold]

\* _analyze_proximity with its distance test made strict
HasAlertStrict(reading, threshold, confidence_threshold) ==
  /\ ~(reading.confidence < confidence_threshold)
  /\ reading.distance_cm < threshold

\* _analyze_proximity returns an alert: the confidence test does not return
\* None and the distance is within the threshold
HasAlert(reading, threshold, confidence_threshold) ==
  /\ ~(reading.confidence < confidence_threshold)
  /\ reading.distance_cm <= threshold

\* _analyze_proximity: the sensor's entry of the tracking map after the call
TrackSensor(started, reading, t0, threshold, confidence_threshold) ==
  IF reading.confidence < confidence_threshold THEN started
  ELSE IF reading.distance_cm <= threshold
    THEN (IF started = None THEN t0 ELSE started)
    ELSE None

\* duration_ms that is 0 in every analysis
DurationAlwaysZero(started, t0) ==
  IF started = None THEN 0 ELSE 0

\* _analyze_proximity: duration_ms, 0 for a sensor without an entry in the
\* tracking map, else the time since the entry's timestamp
Duration(started, t0) ==
  IF started = None THEN 0 ELSE t0 - started

\* min(proximity_alerts, key=distance_cm): the first of the closest alerts
Closest(alerts, sample) ==
  CHOOSE s \in alerts :
    \A u \in alerts :
      \/ sample[s].distance_cm < sample[u].distance_cm
      \/ sample[s].distance_cm = sample[u].distance_cm /\ s <= u

\* the try block: every sensor is analysed; with an alert the counter grows
\* and the callback, when there is one, is handed the result; an exception
\* of the callback is caught and None returned
ProxAnalyse(p, c, sample, cb_ok, t0) ==
  LET alerts == {s \in SensorIds :
                   HasAlert(sample[s], ThresholdGet(p.thresholds, s),
                            p.confidence_threshold)}
      tr == [s \in SensorIds |->
               TrackSensor(p.tracking[s], sample[s], t0,
                           ThresholdGet(p.thresholds, s), p.confidence_threshold)]
      closest == Closest(alerts, sample)
      c1 == [c EXCEPT !.detected = c.detected + (IF alerts # {} THEN 1 ELSE 0)]
      c2 == IF alerts # {} /\ p.callback THEN Publish(c1, TRUE) ELSE c1
  IN [prox |-> [p EXCEPT !.tracking = tr,
                         !.detection_count = p.detection_count
                                               + (IF alerts # {} THEN 1 ELSE 0)],
      calls |-> [c2 EXCEPT !.result = IF alerts = {} THEN "clear"
                                      ELSE IF p.callback /\ ~cb_ok THEN "error"
                                      ELSE "detected",
                           !.alerting = alerts,
                           !.alert = IF alerts = {} THEN NoAlert
                                     ELSE [sensor_id |-> closest,
                                           distance_cm |-> sample[closest].distance_cm,
                                           duration |-> Duration(p.tracking[closest], t0)]]]

\* process_telemetry_data without its not-detecting test
ProxProcessUnguarded(p, c, sample, cb_ok, t0) ==
  ProxAnalyse(p, c, sample, cb_ok, t0)

\* process_telemetry_data(telemetry_data)
ProxProcess(p, c, sample, cb_ok, t0) ==
  IF ~p.detecting
    THEN [prox |-> p, calls |-> [c EXCEPT !.result = "not_detecting",
                                          !.alerting = {}, !.alert = NoAlert]]
    ELSE ProxAnalyse(p, c, sample, cb_ok, t0)

\* start_detection that leaves the tracking map as it is
DetectionStartedKeepsTracking(p, t0) ==
  [p EXCEPT !.detecting = TRUE, !.detection_count = 0, !.start_time = t0]

\* start_detection past its already-detecting test: the flag, the counter,
\* the start time and self._alert_duration_tracking = {}
DetectionStarted(p, t0) ==
  [p EXCEPT !.detecting = TRUE, !.detection_count = 0, !.start_time = t0,
            !.tracking = NoTracking]

\* start_detection()
PStartDetection ==
  /\ family = "ultrasonic"
  /\ prox.detecting \/ FreePcs(prox_threads) # {}
  /\ IF prox.detecting
       THEN UNCHANGED proxVars
       ELSE /\ prox' = DetectionStarted(prox, now)
            /\ prox_threads' = SpawnPc(prox_threads)
  /\ ret' = ServiceResult("start_detection", ~prox.detecting, prox.detecting, "none")
  /\ UNCHANGED <<family, scenario, at, held, analysis, now, lidarVars, logVars, streamVars, occVars, calls,
                 ultraStreamVars, ultraVars>>

\* stop_detection()
PStopDetection ==
  /\ family = "ultrasonic"
  /\ prox' = IF prox.detecting THEN [prox EXCEPT !.detecting = FALSE] ELSE prox
  /\ ret' = ServiceResult("stop_detection", prox.detecting, prox.detecting, "none")
  /\ UNCHANGED <<family, scenario, at, held, analysis, now, lidarVars, logVars, streamVars, occVars, calls,
                 ultraStreamVars, prox_threads, ultraVars>>

\* _detection_loop: while self._detecting: true, a pass starts; the
\* callbacks' records hold at most MaxCount alerts
PLoopTest(t) ==
  /\ family = "ultrasonic"
  /\ prox_threads[t] = "while"
  /\ prox.detecting
  /\ calls.detected < MaxCount
  /\ prox_threads' = [prox_threads EXCEPT ![t] = "body"]
  /\ UNCHANGED <<family, scenario, at, held, analysis, now, lidarVars, logVars, streamVars, occVars, calls,
                 ultraStreamVars, prox, ultraVars, ret>>

\* the pass fetches a sample, calls process_telemetry_data and begins its
\* time.sleep(self._detection_interval)
PLoopProcess(t, sample, cb_ok) ==
  /\ family = "ultrasonic"
  /\ prox_threads[t] = "body"
  /\ LET r == ProxProcess(prox, calls, sample, cb_ok, now)
     IN /\ prox' = r.prox
        /\ calls' = r.calls
  /\ prox_threads' = [prox_threads EXCEPT ![t] = "sleep"]
  /\ UNCHANGED <<family, scenario, at, held, analysis, now, lidarVars, logVars, streamVars, occVars,
                 ultraStreamVars, ultraVars, ret>>

\* the sleep after a pass ends (where the clock is not followed)
PLoopWake(t) ==
  /\ family = "ultrasonic"
  /\ prox_threads[t] = "sleep"
  /\ prox_threads' = [prox_threads EXCEPT ![t] = "while"]
  /\ UNCHANGED <<family, scenario, at, held, analysis, now, lidarVars, logVars, streamVars, occVars, calls,
                 ultraStreamVars, prox, ultraVars, ret>>

\* fetching the sample raises: the except clause prints and sleeps
PLoopRaise(t) ==
  /\ family = "ultrasonic"
  /\ prox_threads[t] = "body"
  /\ prox_threads' = [prox_threads EXCEPT ![t] = "except"]
  /\ UNCHANGED <<family, scenario, at, held, analysis, now, lidarVars, logVars, streamVars, occVars, calls,
                 ultraStreamVars, prox, ultraVars, ret>>

\* the error-recovery sleep ends
PLoopRecover(t) ==
  /\ family = "ultrasonic"
  /\ prox_threads[t] = "except"
  /\ prox_threads' = [prox_threads EXCEPT ![t] = "while"]
  /\ UNCHANGED <<family, scenario, at, held, analysis, now, lidarVars, logVars, streamVars, occVars, calls,
                 ultraStreamVars, prox, ultraVars, ret>>

\* while self._detecting: false, the loop ends
PLoopExit(t) ==
  /\ family = "ultrasonic"
  /\ prox_threads[t] = "while"
  /\ ~prox.detecting
  /\ prox_threads' = [prox_threads EXCEPT ![t] = "none"]
  /\ UNCHANGED <<family, scenario, at, held, analysis, now, lidarVars, logVars, streamVars, occVars, calls,
                 ultraStreamVars, prox, ultraVars, ret>>

\* update_sensor_threshold that validates and reports, and stores nothing
UpdateSensorThresholdDropped(th, sensor_id, threshold_cm) ==
  [thresholds |-> th,
   success |-> /\ ChannelKey(1) <= sensor_id /\ sensor_id <= ChannelKey(4)
               /\ 5 <= threshold_cm /\ threshold_cm <= 200]

\* update_sensor_threshold(sensor_id, threshold_cm): the dictionary after
\* the call and the value returned; sensor_id in tenths
UpdateSensorThreshold(th, sensor_id, threshold_cm) ==
  IF /\ ChannelKey(1) <= sensor_id /\ sensor_id <= ChannelKey(4)
     /\ 5 <= threshold_cm /\ threshold_cm <= 200
    THEN [thresholds |-> [k \in DOMAIN th \cup {sensor_id} |->
                            IF k = sensor_id THEN threshold_cm ELSE th[k]],
          success |-> TRUE]
    ELSE [thresholds |-> th, success |-> FALSE]

\* update_confidence_threshold(confidence)
UpdateConfidenceThreshold(current, confidence) ==
  IF 0 <= confidence /\ confidence <= 100
    THEN [confidence_threshold |-> confidence, success |-> TRUE]
    ELSE [confidence_threshold |-> current, success |-> FALSE]

\* the update requests: sensor ids 0, 1, 2, 2.5, 4 and 5 (in tenths) with
\* thresholds at, inside and outside 5..200, and a request without sensor id
ThresholdArgs ==
  {<<20, 75>>, <<40, 200>>, <<25, 5>>, <<0, 75>>, <<50, 75>>,
   <<20, 4>>, <<20, 201>>, <<Absent, 75>>}

\* confidences 0.0, 1.0, 1.01 and -0.1, and a request without one
ConfidenceArgs ==
  {0, 100, 101, -10, Absent}

\* proximity.control, action update_threshold: a missing or zero parameter
\* is answered without a call of the detector
PUpdateThreshold(sensor_id, threshold_cm) ==
  /\ family = "ultrasonic"
  /\ LET missing == sensor_id \in {Absent, 0} \/ threshold_cm \in {Absent, 0}
         r == UpdateSensorThreshold(prox.thresholds, sensor_id, threshold_cm)
     IN /\ prox' = IF missing THEN prox ELSE [prox EXCEPT !.thresholds = r.thresholds]
        /\ ret' = ServiceResult("update_threshold", ~missing /\ r.success,
                                prox.detecting, IF missing THEN "missing" ELSE "given")
  /\ UNCHANGED <<family, scenario, at, held, analysis, now, lidarVars, logVars, streamVars, occVars, calls,
                 ultraStreamVars, prox_threads, ultraVars>>

\* proximity.control, action update_confidence
PUpdateConfidence(confidence) ==
  /\ family = "ultrasonic"
  /\ LET missing == confidence = Absent
         r == UpdateConfidenceThreshold(prox.confidence_threshold, confidence)
     IN /\ prox' = IF missing THEN prox
                   ELSE [prox EXCEPT !.confidence_threshold = r.confidence_threshold]
        /\ ret' = ServiceResult("update_confidence", ~missing /\ r.success,
                                prox.detecting, IF missing THEN "missing" ELSE "given")
  /\ UNCHANGED <<family, scenario, at, held, analysis, now, lidarVars, logVars, streamVars, occVars, calls,
                 ultraStreamVars, prox_threads, ultraVars>>

\* the samples of the proximity specification: those of UltraSamples, sensor
\* 2 at 70 cm, sensor 1 exactly at the initial thresholds
ProxSamples ==
  UltraSamples
  \cup {[s \in SensorIds |-> IF s = 2 THEN Reading(70, 90) ELSE Reading(200, 90)],
        [s \in SensorIds |-> IF s = 1 THEN Reading(50, 80) ELSE Reading(200, 90)]}

\* a sleep interval passes: the clock advances and the loops asleep after a
\* pass wake
Elapse ==
  /\ family = "ultrasonic"
  /\ now < MaxIntervals
  /\ now' = now + 1
  /\ prox_threads' = [t \in DOMAIN prox_threads |->
                        IF prox_threads[t] = "sleep" THEN "while" ELSE prox_threads[t]]
  /\ us_threads' = [t \in DOMAIN us_threads |->
                      IF us_threads[t] = "sleep" THEN "while" ELSE us_threads[t]]
  /\ UNCHANGED <<family, scenario, at, held, analysis, lidarVars, logVars, streamVars, occVars, calls,
                 us, prox, ultraVars, ret>>

(***************************************************************************)
(* UltrasonicStreamingService.  Intervals are tenths of a second.          *)
(***************************************************************************)
\* __init__: _streaming_interval = 2.0
InitUltraStream ==
  [streaming |-> FALSE, interval |-> 20, count |-> 0, start_time |-> None]

\* the interval of the configuration file's default and another one
UltrasonicIntervals ==
  {20, 50}

IntervalArg(interval) ==
  IF interval = InitUltraStream.interval THEN "default" ELSE "other"

\* start_streaming(streaming_interval): the fields after the call
UStartStreamingFields(s, interval, t0) ==
  IF s.streaming THEN s
  ELSE [streaming |-> TRUE, interval |-> interval, count |-> 0, start_time |-> t0]

\* start_streaming(streaming_interval)
UStartStreaming(interval) ==
  /\ family = "ultrasonic"
  /\ us.streaming \/ FreePcs(us_threads) # {}
  /\ us' = UStartStreamingFields(us, interval, now)
  /\ us_threads' = IF us.streaming THEN us_threads ELSE SpawnPc(us_threads)
  /\ ret' = ServiceResult("start_streaming", ~us.streaming, us.streaming,
                          IntervalArg(interval))
  /\ UNCHANGED <<family, scenario, at, held, analysis, now, lidarVars, logVars, streamVars, occVars, calls,
                 proxVars, ultraVars>>

\* stop_streaming()
UStopStreaming ==
  /\ family = "ultrasonic"
  /\ us' = IF us.streaming THEN [us EXCEPT !.streaming = FALSE] ELSE us
  /\ ret' = ServiceResult("stop_streaming", us.streaming, us.streaming, "none")
  /\ UNCHANGED <<family, scenario, at, held, analysis, now, lidarVars, logVars, streamVars, occVars, calls,
                 us_threads, proxVars, ultraVars>>

\* one pass of _streaming_loop: the generated sample goes to the publish
\* callback, then to the proximity detector's hook, then the transmission
\* counter grows and the thread sleeps for the streaming interval; a raising
\* publish callback ends the pass in the except clause
UStreamTick(t, sample, cb_ok) ==
  /\ family = "ultrasonic"
  /\ us_threads[t] = "while"
  /\ us.streaming
  /\ us.count < MaxCount
  /\ IF cb_ok
       THEN /\ LET r == ProxProcess(prox, calls, sample, TRUE, now)
               IN /\ prox' = r.prox
                  /\ calls' = r.calls
            /\ us' = [us EXCEPT !.count = us.count + 1]
            /\ us_threads' = [us_threads EXCEPT ![t] = "sleep"]
       ELSE /\ us_threads' = [us_threads EXCEPT ![t] = "except"]
            /\ UNCHANGED <<us, prox, calls>>
  /\ UNCHANGED <<family, scenario, at, held, analysis, now, lidarVars, logVars, streamVars, occVars,
                 prox_threads, ultraVars, ret>>

\* the sleep after a pass ends (where the clock is not followed)
UStreamWake(t) ==
  /\ family = "ultrasonic"
  /\ us_threads[t] = "sleep"
  /\ us_threads' = [us_threads EXCEPT ![t] = "while"]
  /\ UNCHANGED <<family, scenario, at, held, analysis, now, lidarVars, logVars, streamVars, occVars, calls,
                 us, proxVars, ultraVars, ret>>

\* the error-recovery sleep ends
UStreamRecover(t) ==
  /\ family = "ultrasonic"
  /\ us_threads[t] = "except"
  /\ us_threads' = [us_threads EXCEPT ![t] = "while"]
  /\ UNCHANGED <<family, scenario, at, held, analysis, now, lidarVars, logVars, streamVars, occVars, calls,
                 us, proxVars, ultraVars, ret>>

\* while self._streaming: false, the loop ends
UStreamExit(t) ==
  /\ family = "ultrasonic"
  /\ us_threads[t] = "while"
  /\ ~us.streaming
  /\ us_threads' = [us_threads EXCEPT ![t] = "none"]
  /\ UNCHANGED <<family, scenario, at, held, analysis, now, lidarVars, logVars, streamVars, occVars, calls,
                 us, proxVars, ultraVars, ret>>

(***************************************************************************)
(* ProximityDetector.process_telemetry_data step by step, for the two      *)
(* threads that call it: the streaming loop through its hook and the       *)
(* detector's polling loop.  _analyze_proximity takes no lock: its tests   *)
(* of the tracking map and its reads, writes and deletions of an entry are *)
(* separate steps.                                                         *)
(***************************************************************************)
Callers ==
  {"hook", "poll"}

\* no call in progress; sensor_id: the sensor of the for loop, alerts: the
\* sensors in proximity_alerts, raised: a KeyError left the try block
NoAnalysis ==
  [pc |-> "idle", sample |-> [s \in SensorIds |-> Reading(None, None)],
   sensor_id |-> 1, alerts |-> {}, raised |-> FALSE]

\* the position of the loop thread t that makes the calls of the caller
CallerPc(c, t) ==
  IF c = "hook" THEN us_threads[t] ELSE prox_threads[t]

\* the loop's pass begins and calls process_telemetry_data(sample): without
\* detection the call returns None at once
ProcessBegin(c, t, sample) ==
  /\ family = "ultrasonic"
  /\ CallerPc(c, t) = "while"
  /\ analysis[c].pc = "idle"
  /\ IF c = "hook" THEN us.streaming /\ us.count < MaxCount
                  ELSE prox.detecting /\ calls.detected < MaxCount
  /\ IF prox.detecting
       THEN /\ analysis' = [analysis EXCEPT ![c] =
                              [NoAnalysis EXCEPT !.pc = "test", !.sample = sample]]
            /\ UNCHANGED calls
       ELSE /\ analysis' = [analysis EXCEPT ![c] = [NoAnalysis EXCEPT !.pc = "returned"]]
            /\ calls' = [calls EXCEPT !.result = "not_detecting",
                                      !.alerting = {}, !.alert = NoAlert]
  /\ IF c = "hook"
       THEN /\ us_threads' = [us_threads EXCEPT ![t] = "call"]
            /\ UNCHANGED prox_threads
       ELSE /\ prox_threads' = [prox_threads EXCEPT ![t] = "call"]
            /\ UNCHANGED us_threads
  /\ UNCHANGED <<family, scenario, at, held, now, lidarVars, logVars, streamVars, occVars,
                 us, prox, ultraVars, ret>>

\* the call goes on to the next sensor, or leaves the for loop
NextSensor(a) ==
  IF a.sensor_id < 4 THEN [a EXCEPT !.pc = "test", !.sensor_id = a.sensor_id + 1]
  ELSE [a EXCEPT !.pc = "analysed"]

\* _analyze_proximity(sensor_id, distance, confidence) up to its test of
\* the tracking map: sensor_key not in / in self._alert_duration_tracking
AnalyseTest(c) ==
  /\ family = "ultrasonic"
  /\ analysis[c].pc = "test"
  /\ LET a == analysis[c]
         reading == a.sample[a.sensor_id]
         tracked == prox.tracking[a.sensor_id] # None
     IN analysis' = [analysis EXCEPT ![c] =
          IF reading.confidence < prox.confidence_threshold THEN NextSensor(a)
          ELSE IF reading.distance_cm <= ThresholdGet(prox.thresholds, a.sensor_id)
            THEN [a EXCEPT !.pc = IF tracked THEN "read" ELSE "write"]
            ELSE IF tracked THEN [a EXCEPT !.pc = "delete"] ELSE NextSensor(a)]
  /\ UNCHANGED <<family, scenario, at, held, now, lidarVars, logVars, streamVars, occVars,
                 calls, ultraStreamVars, proxVars, ultraVars, ret>>

\* the statement after the test: the entry is written, read or deleted; a
\* read or a deletion of an entry that is no longer there raises KeyError,
\* which the except clause of process_telemetry_data catches
AnalyseAct(c) ==
  /\ family = "ultrasonic"
  /\ analysis[c].pc \in {"write", "read", "delete"}
  /\ LET a == analysis[c]
         s == a.sensor_id
         gone == prox.tracking[s] = None
         alert == [a EXCEPT !.alerts = a.alerts \cup {s}]
     IN /\ analysis' = [analysis EXCEPT ![c] =
             CASE a.pc = "write" -> NextSensor(alert)
               [] a.pc = "read" -> IF gone THEN [a EXCEPT !.pc = "analysed", !.raised = TRUE]
                                   ELSE NextSensor(alert)
               [] a.pc = "delete" -> IF gone THEN [a EXCEPT !.pc = "analysed", !.raised = TRUE]
                                     ELSE NextSensor(a)]
        /\ prox' = [prox EXCEPT !.tracking[s] =
                      CASE a.pc = "write" -> now
                        [] a.pc = "read" -> prox.tracking[s]
                        [] a.pc = "delete" -> None]
  /\ UNCHANGED <<family, scenario, at, held, now, lidarVars, logVars, streamVars, occVars,
                 calls, ultraStreamVars, prox_threads, ultraVars, ret>>

\* after the for loop: with alerts the counter grows under the lock and the
\* callback, when there is one, is handed the closest alert; the call
\* returns, the hook's loop counts its transmission, the loop sleeps
ProcessEnd(c, t) ==
  /\ family = "ultrasonic"
  /\ CallerPc(c, t) = "call"
  /\ analysis[c].pc \in {"analysed", "returned"}
  /\ LET a == analysis[c]
         alerted == a.pc = "analysed" /\ ~a.raised /\ a.alerts # {}
         closest == Closest(a.alerts, a.sample)
         c1 == [calls EXCEPT !.detected = calls.detected + (IF alerted THEN 1 ELSE 0)]
         c2 == IF alerted /\ prox.callback THEN Publish(c1, TRUE) ELSE c1
     IN /\ prox' = [prox EXCEPT !.detection_count =
                      prox.detection_count + (IF alerted THEN 1 ELSE 0)]
        /\ calls' = IF a.pc = "returned" THEN calls
                    ELSE [c2 EXCEPT !.result = IF a.raised THEN "error"
                                               ELSE IF alerted THEN "detected"
                                               ELSE "clear",
                                    !.alerting = IF a.raised THEN {} ELSE a.alerts,
                                    !.alert = IF alerted
                                                THEN [sensor_id |-> closest,
                                                      distance_cm |-> a.sample[closest].distance_cm,
                                                      duration |-> 0]
                                                ELSE NoAlert]
  /\ analysis' = [analysis EXCEPT ![c] = NoAnalysis]
  /\ IF c = "hook"
       THEN /\ us' = [us EXCEPT !.count = us.count + 1]
            /\ us_threads' = [us_threads EXCEPT ![t] = "sleep"]
            /\ UNCHANGED prox_threads
       ELSE /\ prox_threads' = [prox_threads EXCEPT ![t] = "sleep"]
            /\ UNCHANGED <<us, us_threads>>
  /\ UNCHANGED <<family, scenario, at, held, now, lidarVars, logVars, streamVars, occVars,
                 ultraVars, ret>>

(***************************************************************************)
(* LidarDataCollector._collection_loop step by step: the three reads of    *)
(* _parameters in _generate_telemetry_data, which take no lock, the block  *)
(* under the collector's lock, the read and the write of the session file, *)
(* and the call of the detector's hook.                                    *)
(***************************************************************************)
\* with self._lock: that stores the sample and does not append it
StoreSampleUnlogged(log, sample) ==
  [current_telemetry |-> sample, telemetry_entries |-> log]

\* with self._lock: self._current_telemetry = telemetry_data, then
\* self._telemetry_entries.append(telemetry_data)
StoreSample(log, sample) ==
  [current_telemetry |-> sample, telemetry_entries |-> Append(log, sample)]

\* one self._parameters.get(key, default) of _generate_telemetry_data: the
\* resolution when the tick starts, then the range filter, then the rate
TickRead(t) ==
  /\ family = "lidar"
  /\ threads[t].pc \in {"while", "resolution", "range_filter"}
  /\ threads[t].pc = "while"
       => /\ collecting
          /\ Len(telemetry_entries)
               + Cardinality({u \in DOMAIN threads :
                                threads[u].pc \in {"resolution", "range_filter",
                                                   "generate"}}) < MaxEntries
  /\ LET r == ReadParameters(parameters)
         th == threads[t]
     IN threads' = [threads EXCEPT ![t] =
          CASE th.pc = "while" ->
                 [th EXCEPT !.pc = "resolution",
                            !.snap = [NoTelemetry EXCEPT !.resolution = r.resolution],
                            !.fresh = TRUE, !.seen = {parameters}]
            [] th.pc = "resolution" ->
                 [th EXCEPT !.pc = "range_filter",
                            !.snap = [th.snap EXCEPT !.range_filter = r.range_filter],
                            !.seen = th.seen \cup {parameters}]
            [] th.pc = "range_filter" ->
                 [th EXCEPT !.pc = "generate",
                            !.snap = [th.snap EXCEPT !.scan_rate_hz = r.scan_rate_hz],
                            !.seen = th.seen \cup {parameters}]]
  /\ UNCHANGED <<family, scenario, at, held, analysis, now, state, telemetry_streaming_service, streaming,
                 collecting, parameters, current_telemetry, logVars, streamVars,
                 occVars, calls, ultraStreamVars, proxVars, ultraVars, ret>>

\* the block under the collector's lock
TickStore(t) ==
  /\ family = "lidar"
  /\ threads[t].pc = "generate"
  /\ LET r == StoreSample(telemetry_entries, threads[t].snap)
     IN /\ current_telemetry' = r.current_telemetry
        /\ telemetry_entries' = r.telemetry_entries
  /\ threads' = [threads EXCEPT ![t] = [threads[t] EXCEPT !.pc = "stored"]]
  /\ UNCHANGED <<family, scenario, at, held, analysis, now, state, telemetry_streaming_service, streaming,
                 collecting, parameters, stopped_entries, session_file, streamVars,
                 occVars, calls, ultraStreamVars, proxVars, ultraVars, ret>>

\* _save_telemetry_to_file, outside the lock: json.load of the file at
\* _file_path
TickSaveRead(t) ==
  /\ family = "lidar"
  /\ threads[t].pc = "stored"
  /\ threads' = [threads EXCEPT ![t] = [threads[t] EXCEPT !.pc = "saving",
                                          !.existing = session_file]]
  /\ UNCHANGED <<family, scenario, at, held, analysis, now, state, telemetry_streaming_service, streaming,
                 collecting, parameters, current_telemetry, logVars, streamVars,
                 occVars, calls, ultraStreamVars, proxVars, ultraVars, ret>>

\* _save_telemetry_to_file: existing_data.append(telemetry_data), then
\* json.dump of the list to the file at _file_path
TickSaveWrite(t) ==
  /\ family = "lidar"
  /\ threads[t].pc = "saving"
  /\ session_file' = Append(threads[t].existing, threads[t].snap)
  /\ threads' = [threads EXCEPT ![t] = [threads[t] EXCEPT !.pc = "saved",
                                          !.existing = <<>>]]
  /\ UNCHANGED <<family, scenario, at, held, analysis, now, state, telemetry_streaming_service, streaming,
                 collecting, parameters, current_telemetry, telemetry_entries,
                 stopped_entries, streamVars, occVars, calls, ultraStreamVars,
                 proxVars, ultraVars, ret>>

\* the occupancy detector's hook is called with the sample, the thread
\* sleeps
TickHook(t, detected, cb_ok) ==
  /\ family = "lidar"
  /\ threads[t].pc = "saved"
  /\ LET hook == OccProcess(occ, calls, detected, cb_ok)
     IN /\ occ' = hook.occ
        /\ calls' = hook.calls
  /\ threads' = [threads EXCEPT ![t] = [threads[t] EXCEPT !.pc = "while",
                                          !.snap = NoTelemetry, !.fresh = FALSE,
                                          !.seen = {}]]
  /\ UNCHANGED <<family, scenario, at, held, analysis, now, state, telemetry_streaming_service, streaming,
                 collecting, parameters, current_telemetry, logVars, streamVars,
                 occ_threads, ultraStreamVars, proxVars, ultraVars, ret>>

(***************************************************************************)
(* The locks.  Each component has one threading.RLock; a thread's call or  *)
(* tick is the list of the lock operations it makes, in the order of the   *)
(* with blocks of the code.                                                *)
(***************************************************************************)
\* the MQTT thread that runs the control calls, and the loop threads of the
\* collector, the streaming service and the occupancy detector
LockThreads ==
  {"control", "generation", "streaming", "detector"}

\* stop(): under the control lock, stop_collection, stop_streaming, then
\* current_state()
StopProgram ==
  <<<<"acquire", "control">>,
    <<"acquire", "collector">>, <<"release", "collector">>,
    <<"acquire", "streaming">>, <<"release", "streaming">>,
    <<"acquire", "control">>, <<"release", "control">>,
    <<"release", "control">>>>

\* start(): start_streaming, start_collection, current_state();
\* apply_config() on an active service: update_parameters;
\* reset() of an active service: stop(), then current_state()
ControlProgram(call) ==
  CASE call = "start" ->
         <<<<"acquire", "control">>,
           <<"acquire", "streaming">>, <<"release", "streaming">>,
           <<"acquire", "collector">>, <<"release", "collector">>,
           <<"acquire", "control">>, <<"release", "control">>,
           <<"release", "control">>>>
    [] call = "stop" -> StopProgram
    [] call = "apply_config" ->
         <<<<"acquire", "control">>,
           <<"acquire", "collector">>, <<"release", "collector">>,
           <<"release", "control">>>>
    [] call = "reset" ->
         <<<<"acquire", "control">>>> \o StopProgram
           \o <<<<"acquire", "control">>, <<"release", "control">>,
                <<"release", "control">>>>

\* a tick of _collection_loop that calls the detector's hook inside its
\* with self._lock block
GenerationProgramHookInside ==
  <<<<"acquire", "collector">>,
    <<"acquire", "detector">>, <<"release", "detector">>,
    <<"release", "collector">>>>

\* a tick of _collection_loop: the block that stores the sample, then the
\* hook process_telemetry_data with its block that updates the state
GenerationProgram ==
  <<<<"acquire", "collector">>, <<"release", "collector">>,
    <<"acquire", "detector">>, <<"release", "detector">>>>

\* a pass of the streaming loop: get_current_telemetry(), then the block
\* that counts the transmission
StreamingProgram ==
  <<<<"acquire", "collector">>, <<"release", "collector">>,
    <<"acquire", "streaming">>, <<"release", "streaming">>>>

\* a pass of the detector's polling loop: _detect_occupancy calls
\* get_current_telemetry(), then the block that updates the state
DetectorProgram ==
  <<<<"acquire", "collector">>, <<"release", "collector">>,
    <<"acquire", "detector">>, <<"release", "detector">>>>

ProgramOf(th, call) ==
  CASE th = "control" -> ControlProgram(call)
    [] th = "generation" -> GenerationProgram
    [] th = "streaming" -> StreamingProgram
    [] th = "detector" -> DetectorProgram

\* the MQTT thread receives a control call
Call(call) ==
  /\ family = "lidar"
  /\ at["control"].call = "idle"
  /\ at' = [at EXCEPT !["control"] = [call |-> call, i |-> 1]]
  /\ UNCHANGED <<family, scenario, held, analysis, now, lidarVars, logVars, streamVars, occVars,
                 calls, ultraStreamVars, proxVars, ultraVars, ret>>

\* the thread makes its next lock operation: acquiring waits until the
\* lock is free or owned by the thread itself; after the last operation a
\* control call returns and a loop sleeps until its next pass
LockStep(th) ==
  /\ family = "lidar"
  /\ at[th].call # "idle"
  /\ LET program == ProgramOf(th, at[th].call)
         op == program[at[th].i][1]
         l == program[at[th].i][2]
     IN /\ op = "acquire" => held[l].owner \in {"free", th}
        /\ held' = [held EXCEPT ![l] =
                      IF op = "acquire"
                        THEN [owner |-> th, count |-> held[l].count + 1]
                        ELSE [owner |-> IF held[l].count = 1 THEN "free" ELSE th,
                              count |-> held[l].count - 1]]
        /\ at' = [at EXCEPT ![th] =
                    IF at[th].i < Len(program)
                      THEN [at[th] EXCEPT !.i = at[th].i + 1]
                      ELSE [call |-> IF th = "control" THEN "idle" ELSE "tick",
                            i |-> 1]]
  /\ UNCHANGED <<family, scenario, analysis, now, lidarVars, logVars, streamVars, occVars,
                 calls, ultraStreamVars, proxVars, ultraVars, ret>>

(***************************************************************************)
(* The system.  The two sensor families share no state; a behaviour drives *)
(* the control service of one family.                                      *)
(***************************************************************************)
InitFields ==
  /\ family \in {"lidar", "ultrasonic"}
  /\ now = 0
  /\ state = InitState
  /\ telemetry_streaming_service = TRUE
  /\ streaming = FALSE
  /\ collecting = FALSE
  /\ parameters = EmptyParameters
  /\ threads = [t \in 1..MaxThreads |-> NoThread]
  /\ current_telemetry = NoTelemetry
  /\ telemetry_entries = <<>>
  /\ stopped_entries = None
  /\ session_file = <<>>
  /\ stream = InitStream
  /\ stream_threads = NoThreads
  /\ delivered = NoDeliveries
  /\ occ = InitOcc
  /\ occ_threads = NoThreads
  /\ calls = NoCalls
  /\ us = InitUltraStream
  /\ us_threads = NoThreads
  /\ prox = InitProx
  /\ prox_threads = NoThreads
  /\ u_active = FALSE
  /\ u_config = DefaultUltraConfig
  /\ u_start_time = None
  /\ u_status = "initialized"
  /\ ret = NoResult
  /\ at = [th \in LockThreads |->
             [call |-> IF th = "control" THEN "idle" ELSE "tick", i |-> 1]]
  /\ held = [l \in {"control", "collector", "streaming", "detector"} |->
               [owner |-> "free", count |-> 0]]
  /\ analysis = [c \in Callers |-> NoAnalysis]

Init ==
  /\ scenario = "all"
  /\ InitFields

\* the control plane: the operations of the two control services with
\* their configuration inputs and the clock;
\* generation and streaming loops only end
Next ==
  \/ \E config \in LidarConfigs, io_ok \in BOOLEAN : LidarStart(config, io_ok)
  \/ LidarStop("none")
  \/ LidarReset
  \/ \E config \in LidarConfigs : LidarApplyConfig(config)
  \/ \E t \in 1..MaxThreads : LoopExit(t)
  \/ \E t \in 1..MaxThreads : StreamExit(t)
  \/ \E config \in UltrasonicConfigs : UltrasonicStart(config)
  \/ UltrasonicStop
  \/ UltrasonicReset
  \/ \E config \in UltrasonicConfigs : UltrasonicApplyConfig(config)
  \/ Tick

Spec ==
  Init /\ [][Next]_vars

\* configurations of the generation-loop specification: none, all three
\* fields changed, a rejected rate
LoopConfigs ==
  {LidarConfig(Absent, AbsentStr, "absent", Absent, Absent),
   LidarConfig(200, "HIGH", "dict", 300, Absent),
   LidarConfig(0, AbsentStr, "absent", Absent, Absent)}

\* the sessions: the control services together with the generation loops of
\* the collector and the scan counter; the occupancy detector is not started
NextLoop ==
  \/ \E config \in LoopConfigs, io_ok \in BOOLEAN : LidarStart(config, io_ok)
  \/ LidarStop("none")
  \/ LidarReset
  \/ \E config \in LoopConfigs : LidarApplyConfig(config)
  \/ IncrementScanCount
  \/ \E t \in 1..MaxThreads : LoopGenerate(t)
  \/ \E t \in 1..MaxThreads : LoopStore(t, FALSE, TRUE)
  \/ \E t \in 1..MaxThreads : LoopExit(t)
  \/ \E t \in 1..MaxThreads : StreamExit(t)
  \/ \E config \in UltrasonicConfigs : UltrasonicStart(config)
  \/ UltrasonicStop
  \/ UltrasonicReset
  \/ \E config \in UltrasonicConfigs : UltrasonicApplyConfig(config)

SpecLoop ==
  Init /\ [][NextLoop]_vars

\* the loops of a stopped session run to their end: each loop thread is
\* scheduled again after its sleep
SpecLoopFair ==
  /\ Init
  /\ [][NextLoop]_vars
  /\ \A t \in 1..MaxThreads :
       /\ WF_vars(LoopStore(t, FALSE, TRUE))
       /\ WF_vars(LoopExit(t))

\* the pipelines, one per behaviour: the sessions with stop failures and
\* generation errors, the streaming services with their loops, the detectors
\* with their hooks and loops; the scenario decides which calls the command
\* router makes, the loop threads run in each
InitPipe ==
  /\ scenario \in {"sessions", "streaming", "detection"}
  /\ InitFields

NextPipe ==
  \/ \E io_ok \in BOOLEAN :
       (io_ok \/ scenario = "sessions") /\ LidarStart(NoConfig, io_ok)
  \/ scenario = "sessions" /\ \E fail \in StopFailures : LidarStop(fail)
  \/ \E t \in 1..MaxThreads : LoopGenerate(t)
  \/ \E t \in 1..MaxThreads, detected \in BOOLEAN, cb_ok \in BOOLEAN :
       LoopStore(t, detected, cb_ok)
  \/ scenario = "sessions" /\ \E t \in 1..MaxThreads : LoopRaise(t)
  \/ \E t \in 1..MaxThreads : LoopRecover(t)
  \/ \E t \in 1..MaxThreads : LoopExit(t)
  \/ scenario = "sessions"
       /\ UltrasonicStart(UltraConfig(Absent, Absent, Absent, Absent, Absent, Absent))
  \/ scenario = "sessions" /\ UltrasonicStop
  \/ scenario = "streaming" /\ StartStreaming
  \/ scenario = "streaming" /\ StopStreaming
  \/ scenario = "streaming"
       /\ \E t \in 1..MaxThreads, cb_ok \in BOOLEAN : StreamTick(t, cb_ok)
  \/ \E t \in 1..MaxThreads : StreamCount(t)
  \/ \E t \in 1..MaxThreads : StreamRecover(t)
  \/ \E t \in 1..MaxThreads : StreamExit(t)
  \/ scenario = "streaming"
       /\ \E interval \in UltrasonicIntervals : UStartStreaming(interval)
  \/ scenario = "streaming" /\ UStopStreaming
  \/ \E t \in 1..MaxThreads, sample \in UltraSamples, cb_ok \in BOOLEAN :
       UStreamTick(t, sample, cb_ok)
  \/ \E t \in 1..MaxThreads : UStreamWake(t)
  \/ \E t \in 1..MaxThreads : UStreamRecover(t)
  \/ \E t \in 1..MaxThreads : UStreamExit(t)
  \/ scenario = "streaming" /\ family = "ultrasonic" /\ Tick
  \/ scenario = "detection" /\ StartDetection
  \/ scenario = "detection" /\ StopDetection
  \/ \E t \in 1..MaxThreads, detected \in BOOLEAN, cb_ok \in BOOLEAN :
       OccPoll(t, detected, cb_ok)
  \/ \E t \in 1..MaxThreads : OccRecover(t)
  \/ \E t \in 1..MaxThreads : OccExit(t)
  \/ scenario = "detection" /\ PStartDetection
  \/ scenario = "detection" /\ PStopDetection
  \/ \E t \in 1..MaxThreads : PLoopTest(t)
  \/ \E t \in 1..MaxThreads, sample \in UltraSamples, cb_ok \in BOOLEAN :
       PLoopProcess(t, sample, cb_ok)
  \/ \E t \in 1..MaxThreads : PLoopWake(t)
  \/ \E t \in 1..MaxThreads : PLoopRaise(t)
  \/ \E t \in 1..MaxThreads : PLoopRecover(t)
  \/ \E t \in 1..MaxThreads : PLoopExit(t)

SpecPipe ==
  InitPipe /\ [][NextPipe]_vars

\* the proximity detector with its polling loop and the streaming loop that
\* calls its hook, in one detection session: in one kind of behaviour the
\* clock is followed and a sleep ends when time has passed, in the other
\* the command router receives threshold updates
InitProximity ==
  /\ scenario \in {"durations", "thresholds"}
  /\ InitFields
  /\ family = "ultrasonic"

NextProximity ==
  \/ PStartDetection
  \/ \E t \in 1..MaxThreads : PLoopTest(t)
  \/ \E t \in 1..MaxThreads, sample \in ProxSamples : PLoopProcess(t, sample, TRUE)
  \/ scenario = "durations" /\ UStartStreaming(InitUltraStream.interval)
  \/ \E t \in 1..MaxThreads, sample \in ProxSamples : UStreamTick(t, sample, TRUE)
  \/ scenario = "durations" /\ Elapse
  \/ scenario = "thresholds" /\ \E t \in 1..MaxThreads : PLoopWake(t)
  \/ scenario = "thresholds"
       /\ \E arg \in ThresholdArgs : PUpdateThreshold(arg[1], arg[2])
  \/ scenario = "thresholds"
       /\ \E confidence \in ConfidenceArgs : PUpdateConfidence(confidence)

SpecProximity ==
  InitProximity /\ [][NextProximity]_vars

\* the sessions of the LiDAR collector with the tick of the generation loop
\* taken step by step, while the control service starts, stops and
\* reconfigures
InitTick ==
  /\ scenario = "tick"
  /\ InitFields
  /\ family = "lidar"

NextTick ==
  \/ LidarStart(NoConfig, TRUE)
  \/ LidarStop("none")
  \/ \E config \in LoopConfigs : LidarApplyConfig(config)
  \/ \E t \in 1..MaxThreads : TickRead(t)
  \/ \E t \in 1..MaxThreads : TickStore(t)
  \/ \E t \in 1..MaxThreads : TickSaveRead(t)
  \/ \E t \in 1..MaxThreads : TickSaveWrite(t)
  \/ \E t \in 1..MaxThreads : TickHook(t, FALSE, TRUE)
  \/ \E t \in 1..MaxThreads : LoopExit(t)
  \/ \E t \in 1..MaxThreads : StreamExit(t)

SpecTick ==
  InitTick /\ [][NextTick]_vars

\* the two callers of the proximity detector's process_telemetry_data with
\* the call taken step by step, in one detection and one streaming session
InitRace ==
  /\ scenario = "race"
  /\ InitFields
  /\ family = "ultrasonic"

NextRace ==
  \/ PStartDetection
  \/ UStartStreaming(InitUltraStream.interval)
  \/ \E c \in Callers, t \in 1..MaxThreads, sample \in UltraSamples :
       ProcessBegin(c, t, sample)
  \/ \E c \in Callers : AnalyseTest(c)
  \/ \E c \in Callers : AnalyseAct(c)
  \/ \E c \in Callers, t \in 1..MaxThreads : ProcessEnd(c, t)
  \/ \E t \in 1..MaxThreads : PLoopWake(t)
  \/ \E t \in 1..MaxThreads : UStreamWake(t)

SpecRace ==
  InitRace /\ [][NextRace]_vars

\* the lock operations of the control calls and of the three loops; a
\* thread that can make its next lock operation makes it, and a thread that
\* waits for a lock gets it: the blocks under a lock are short and each
\* loop sleeps between its passes
InitLocks ==
  /\ scenario = "locks"
  /\ InitFields
  /\ family = "lidar"

NextLocks ==
  \/ \E call \in {"start", "stop", "apply_config", "reset"} : Call(call)
  \/ \E th \in LockThreads : LockStep(th)

SpecLocksFair ==
  /\ InitLocks
  /\ [][NextLocks]_vars
  /\ \A th \in LockThreads : SF_vars(LockStep(th))

(***************************************************************************)
(* Properties                                                              *)
(***************************************************************************)
ThreadPcs(th) ==
  [t \in DOMAIN th |-> th[t].pc]

\* C1: at most one generation loop of the DataCollector is live in every
\* reachable state, also after a stop followed by a start that the previous
\* loop has not yet observed.
C1_AtMostOneLiveLoop ==
  Cardinality(LiveThreads(threads)) <= 1

\* C2: start() with no configuration on a service that is already active
\* (a second start with no stop in between) returns active = true and
\* launches no generation loop: every loop thread is where it was.
C2_SecondStartLaunchesNoLoop ==
  [][(state.active /\ \E io_ok \in BOOLEAN : LidarStart(NoConfig, io_ok))
       => (ret'.active = "true" /\ ThreadPcs(threads') = ThreadPcs(threads))]_vars

C2_Witness ==
  /\ ret.op = "start" /\ ret.pre_active /\ ret.arg = "none" /\ ret.active = "true"
  /\ collecting
  /\ Cardinality(LiveThreads(threads)) = 1

\* C3: start(config?) on an already-active service leaves the configuration,
\* the status, the start timestamp and the error counter as they were.
C3_StartOnActiveChangesNothing ==
  [][/\ (state.active /\ \E config \in LidarConfigs, io_ok \in BOOLEAN :
                            LidarStart(config, io_ok))
          => /\ Cfg(state') = Cfg(state)
             /\ state'.status = state.status
             /\ state'.last_started = state.last_started
             /\ state'.error_count = state.error_count
     /\ (u_active /\ \E config \in UltrasonicConfigs : UltrasonicStart(config))
          => UNCHANGED ultraVars]_vars

\* C4: stop() on a service that is not active returns success = false and
\* leaves every field of the service state unchanged.
C4_StopOnInactiveChangesNothing ==
  [][/\ (~state.active /\ LidarStop("none"))
          => (ret'.success = "false" /\ state' = state)
     /\ (~u_active /\ UltrasonicStop)
          => (ret'.success = "false" /\ UNCHANGED ultraVars)]_vars

\* a present field of a LiDAR configuration that is outside its bound
LidarFieldInvalid(config, st) ==
  \/ config.scan_rate_hz # Absent
       /\ ~(10 <= config.scan_rate_hz /\ config.scan_rate_hz <= 500)
  \/ config.resolution # AbsentStr
       /\ Lower(config.resolution) \notin {"high", "medium", "low"}
  \/ config.range_filter.kind = "notdict"
  \/ config.range_filter.kind = "dict"
       /\ LET lo == RangeGet(config.range_filter.min_range_m, st.range_filter.min_range_m)
              hi == RangeGet(config.range_filter.max_range_m, st.range_filter.max_range_m)
          IN lo < 1 \/ hi > 1000 \/ lo > hi

\* a present field of an ultrasonic configuration that is outside its bound
UltraFieldInvalid(config) ==
  \/ config.sensors_enabled # Absent
       /\ ~(1 <= IntOfTenths(config.sensors_enabled) /\ IntOfTenths(config.sensors_enabled) <= 4)
  \/ config.sample_rate_hz # Absent
       /\ ~(1 <= config.sample_rate_hz /\ config.sample_rate_hz <= 1000)
  \/ config.max_range_cm # Absent
       /\ ~(10 <= config.max_range_cm /\ config.max_range_cm <= 500)
  \/ config.min_range_cm # Absent
       /\ ~(1 <= config.min_range_cm /\ config.min_range_cm <= 50)

\* C5: applyConfig is all-or-nothing: a partial configuration with an
\* invalid field raises, and a call that raises leaves the stored
\* configuration identical to the one before the call.
C5_ApplyConfigAllOrNothing ==
  [][/\ \A config \in LidarConfigs :
          LidarApplyConfig(config)
            => /\ LidarFieldInvalid(config, state) => ret'.raised
               /\ ret'.raised => Cfg(state') = Cfg(state)
     /\ \A config \in UltrasonicConfigs :
          UltrasonicApplyConfig(config)
            => /\ UltraFieldInvalid(config) => ret'.raised
               /\ ret'.raised => u_config' = u_config]_vars

\* C6: applyConfig with nothing but an out-of-bounds generation rate raises,
\* leaves the stored configuration (and the whole service state) identical
\* and pushes nothing to the DataCollector.
C6_BadRateOnlyRejected ==
  [][/\ \A config \in LidarConfigs :
          (/\ ConfigKeys(config) = {"scan_rate_hz"}
           /\ ~(10 <= config.scan_rate_hz /\ config.scan_rate_hz <= 500)
           /\ LidarApplyConfig(config))
            => (ret'.raised /\ state' = state /\ parameters' = parameters)
     /\ \A config \in UltrasonicConfigs :
          (/\ UltraKeys(config) = {"sample_rate_hz"}
           /\ ~(1 <= config.sample_rate_hz /\ config.sample_rate_hz <= 1000)
           /\ UltrasonicApplyConfig(config))
            => (ret'.raised /\ UNCHANGED ultraVars)]_vars

C6_Witness ==
  /\ family = "lidar"
  /\ ret.op = "apply_config" /\ ret.raised /\ ret.arg = "rate_only"
  /\ state.active /\ collecting
  /\ state.scan_rate_hz = 200
  /\ parameters = Cfg(state)

\* C7: in every reachable state the stored range filter is strictly
\* ordered, lower bound < upper bound, with each bound inside its documented
\* range (0.1..100.0 m; ultrasonic 1..50 cm and 10..500 cm).
C7_RangeFilterStrictlyOrdered ==
  /\ state.range_filter.min_range_m < state.range_filter.max_range_m
  /\ 1 <= state.range_filter.min_range_m
  /\ state.range_filter.max_range_m <= 1000
  /\ u_config.min_range_cm < u_config.max_range_cm
  /\ 1 <= u_config.min_range_cm /\ u_config.min_range_cm <= 50
  /\ 10 <= u_config.max_range_cm /\ u_config.max_range_cm <= 500

\* the last control call was an applyConfig that succeeded on an active
\* service
AppliedWhileActive ==
  ret.op = "apply_config" /\ ~ret.raised /\ ret.pre_active /\ state.active

\* C8: after applyConfig succeeded on an active service, and until the next
\* control call, the DataCollector holds the new configuration and every tick
\* whose generation started after the call returned generates its sample
\* from the new rate, resolution and range filter.
C8_NewConfigUsedByLaterTicks ==
  AppliedWhileActive
    => /\ parameters = Cfg(state)
       /\ \A t \in DOMAIN threads :
            (threads[t].pc = "generate" /\ threads[t].fresh)
              => threads[t].snap = Cfg(state)

C8_Witness ==
  /\ AppliedWhileActive
  /\ Cfg(state) # Cfg(InitState)
  /\ current_telemetry = Cfg(InitState)
  /\ \E t \in DOMAIN threads :
       threads[t].pc = "generate" /\ threads[t].fresh /\ threads[t].snap = Cfg(state)

ActiveValue(flag) ==
  IF flag THEN "true" ELSE "false"

\* C11: when start() fails internally (an invalid configuration, a failing
\* DataCollector start) the call does not raise, the status becomes error,
\* the error counter grows by exactly one and the returned state is the
\* service's state after the failure.
C11_StartFailureReported ==
  [][/\ \A config \in LidarConfigs, io_ok \in BOOLEAN :
          (LidarStart(config, io_ok) /\ ret'.error)
            => /\ ~ret'.raised
               /\ state'.status = "error"
               /\ state'.error_count = state.error_count + 1
               /\ ret'.status = state'.status
               /\ ret'.active = ActiveValue(state'.active)
     /\ \A config \in UltrasonicConfigs :
          (~u_active /\ UltrasonicStart(config) /\ ret'.success = "false")
            => /\ ~ret'.raised
               /\ u_status' = "error"
               /\ ret'.active = ActiveValue(u_active')]_vars

\* C12: when the stop sequence of stop() fails part-way (the DataCollector
\* stop or the StreamingService stop raises) the call does not raise, it
\* reports the error, and the service's active flag has the value it had
\* before the call.
C12_StopFailureKeepsActive ==
  [][\A fail \in StopFailures \ {"none"} :
        LidarStop(fail)
          => /\ ~ret'.raised
             /\ ret'.error
             /\ state'.active = state.active
             /\ state'.status = "error"]_vars

C12_Witness ==
  /\ ret.op = "stop" /\ ret.error /\ ret.pre_active
  /\ state.active /\ state.status = "error" /\ state.error_count = 1
  /\ ~collecting
  /\ LiveThreads(threads) # {}

\* the sample the generation loops stored last
LastStored ==
  IF telemetry_entries = <<>> THEN NoTelemetry
  ELSE telemetry_entries[Len(telemetry_entries)]

\* C13 as claimed: getCurrentSample() returns none only when no sample has
\* ever been generated; once a tick has stored a sample it returns the most
\* recently stored sample in every later state, also after stop_collection.
C13_CurrentSampleSurvivesStop ==
  GetCurrentTelemetry(collecting, current_telemetry) = LastStored

\* C13 amended: getCurrentSample() returns none when the collector is not
\* collecting or no sample has been stored; while collecting it returns the
\* most recently stored sample.
C13_CurrentSampleWhileCollecting ==
  GetCurrentTelemetry(collecting, current_telemetry)
    = IF collecting THEN LastStored ELSE NoTelemetry

C13_Witness ==
  /\ ~collecting
  /\ Len(telemetry_entries) = 2
  /\ telemetry_entries[1] # telemetry_entries[2]
  /\ current_telemetry = telemetry_entries[2]
  /\ GetCurrentTelemetry(collecting, current_telemetry) = NoTelemetry

\* C14: after stop_collection returned and with no later start_collection,
\* the generation loop eventually exits, and at most one further sample (the
\* tick already in progress) is stored and logged after the stop.
C14_StopEndsLoopAfterOneTick ==
  /\ []((~collecting /\ stopped_entries # None)
          => Len(telemetry_entries) <= stopped_entries + 1)
  /\ [](~collecting => <>(collecting \/ LiveThreads(threads) = {}))

\* a loop thread of a pool ends in this step
Leaves(pcs, pcs2, t) ==
  pcs[t] # "none" /\ pcs2[t] = "none"

\* a loop thread that was in its except clause moves on to the loop test
Resumes(pcs, pcs2, t) ==
  (pcs[t] = "except" /\ pcs2[t] # "except") => pcs2[t] = "while"

\* C15: a generation, streaming or detection loop leaves its loop only in a
\* state where its own running flag is false: an exception raised inside a
\* tick body is caught, the thread goes on to its loop test, and with the
\* flag true the loop test starts another tick.
C15_LoopEndsOnlyWhenFlagFalse ==
  [][\A t \in 1..MaxThreads :
       /\ Leaves(ThreadPcs(threads), ThreadPcs(threads'), t) => ~collecting
       /\ Leaves(stream_threads, stream_threads', t) => ~streaming
       /\ Leaves(occ_threads, occ_threads', t) => ~occ.detecting
       /\ Leaves(prox_threads, prox_threads', t) => ~prox.detecting
       /\ Leaves(us_threads, us_threads', t) => ~us.streaming
       /\ Resumes(ThreadPcs(threads), ThreadPcs(threads'), t)
       /\ Resumes(stream_threads, stream_threads', t)
       /\ Resumes(occ_threads, occ_threads', t)
       /\ Resumes(prox_threads, prox_threads', t)
       /\ Resumes(us_threads, us_threads', t)
       /\ LoopRaise(t) => threads'[t].pc = "except"
       /\ PLoopRaise(t) => prox_threads'[t] = "except"
       /\ (threads[t].pc = "while" /\ collecting /\ threads'[t].pc # "while")
            => threads'[t].pc = "generate"
       /\ (prox_threads[t] = "while" /\ prox.detecting /\ prox_threads'[t] # "while")
            => prox_threads'[t] = "body"]_vars

C15_Witness ==
  /\ collecting
  /\ \E t \in 1..MaxThreads :
       /\ threads[t].recovered
       /\ threads[t].pc = "generate"
  /\ Len(telemetry_entries) = 1

\* C16: startStreaming while already streaming returns a failure result
\* without raising and leaves the interval, the transmission counter, the
\* start time and the running loop unchanged; stopStreaming while not
\* streaming returns a failure result without raising and leaves the state
\* unchanged.
C16_ReentrantStreamingCallsFail ==
  [][/\ (streaming /\ StartStreaming)
          => /\ ret'.success = "false" /\ ~ret'.raised
             /\ UNCHANGED <<streaming, stream, stream_threads>>
     /\ (~streaming /\ StopStreaming)
          => /\ ret'.success = "false" /\ ~ret'.raised
             /\ UNCHANGED <<streaming, stream, stream_threads>>
     /\ \A interval \in UltrasonicIntervals :
          (us.streaming /\ UStartStreaming(interval))
            => /\ ret'.success = "false" /\ ~ret'.raised
               /\ UNCHANGED <<us, us_threads>>
     /\ (~us.streaming /\ UStopStreaming)
          => /\ ret'.success = "false" /\ ~ret'.raised
             /\ UNCHANGED <<us, us_threads>>]_vars

C16_Witness ==
  /\ ret.op = "start_streaming" /\ ret.success = "false" /\ ret.pre_active
  /\ ret.arg = "other"
  /\ us.streaming
  /\ us.interval = InitUltraStream.interval
  /\ us.count > 0
  /\ us.start_time < now

\* C17: on each StreamingService tick, if the DataCollector has a current
\* sample the publish callback is invoked once with that sample and the
\* transmission counter then grows by one; without a sample the callback is
\* not invoked, the counter is unchanged and the loop goes on to its next
\* tick.  Hence, whenever no tick is between its callback and its count, the
\* counter equals the number of completed callback invocations since the
\* last successful startStreaming.
C17_CounterCountsDeliveries ==
  [][/\ \A t \in 1..MaxThreads :
          /\ (StreamTick(t, TRUE)
                /\ GetCurrentTelemetry(collecting, current_telemetry) # NoTelemetry)
               => /\ delivered'.count = delivered.count + 1
                  /\ delivered'.sample = current_telemetry
                  /\ stream_threads'[t] = "published"
          /\ (\E cb_ok \in BOOLEAN : StreamTick(t, cb_ok)
                /\ GetCurrentTelemetry(collecting, current_telemetry) = NoTelemetry)
               => /\ delivered' = delivered
                  /\ stream' = stream
                  /\ stream_threads'[t] = "idle"
          /\ StreamCount(t) => stream'.count = stream.count + 1
          /\ (stream_threads[t] = "idle" /\ stream_threads'[t] # "idle")
               => stream_threads'[t] = "while"
     /\ Published(stream_threads') = {} => stream'.count = delivered'.count]_vars

\* C18: a publish callback that raises never propagates out of the calling
\* loop: the streaming loop and the detector's polling loop go to their
\* except clause and from there to the loop test, the collector's generation
\* loop (through the detector hook) goes on to its loop test, and the
\* collector's sample of that tick stays stored and logged.
C18_CallbackFailureContained ==
  [][\A t \in 1..MaxThreads :
       /\ (StreamTick(t, FALSE)
             /\ GetCurrentTelemetry(collecting, current_telemetry) # NoTelemetry)
            => stream_threads'[t] = "except"
       /\ OccPoll(t, TRUE, FALSE) => occ_threads'[t] = "except"
       /\ Resumes(stream_threads, stream_threads', t)
       /\ Resumes(occ_threads, occ_threads', t)
       /\ (occ.detecting /\ LoopStore(t, TRUE, FALSE))
            => /\ calls'.result = "error"
               /\ calls'.invoked = calls.invoked + 1
               /\ threads'[t].pc = "while"
               /\ current_telemetry' = threads[t].snap
               /\ telemetry_entries' = Append(telemetry_entries, threads[t].snap)]_vars

C18_Witness ==
  /\ calls.result = "error" /\ calls.invoked = 1
  /\ collecting
  /\ Len(telemetry_entries) = 1
  /\ current_telemetry = telemetry_entries[1]
  /\ \E t \in 1..MaxThreads : threads[t].pc = "generate"

\* C19: the Detector invokes the publish callback exactly on the
\* processSample calls whose result has detected = true: the number of
\* callback invocations equals the number of detected results, and no
\* invocation announces a cleared state.
C19_CallbackExactlyOnDetected ==
  /\ calls.invoked = calls.detected
  /\ calls.cleared = 0

\* C20: while the Detector's detecting flag is false, a call of the
\* synchronous hook (processSample) invokes no callback, returns no result
\* and leaves the detection counter, the current-occupancy value and the
\* AlertTracking map unchanged.
C20_HookIdleWhenNotDetecting ==
  [][\A t \in 1..MaxThreads :
       /\ \A detected \in BOOLEAN, cb_ok \in BOOLEAN :
            (~occ.detecting /\ LoopStore(t, detected, cb_ok))
              => /\ occ' = occ
                 /\ calls'.invoked = calls.invoked
                 /\ calls'.result = "not_detecting"
       /\ \A sample \in UltraSamples, cb_ok \in BOOLEAN :
            (~prox.detecting
               /\ (PLoopProcess(t, sample, cb_ok) \/ UStreamTick(t, sample, TRUE)))
              => /\ prox' = prox
                 /\ calls'.invoked = calls.invoked
                 /\ calls'.result = "not_detecting"]_vars

C20_Witness ==
  /\ family = "ultrasonic"
  /\ ~prox.detecting
  /\ calls.result = "not_detecting"
  /\ prox.detection_count > 0
  /\ prox.tracking[1] # None

(***************************************************************************)
(* Properties of the proximity analysis                                    *)
(***************************************************************************)
\* the sensors of a sample whose distance is at or below the sensor's stored
\* threshold and whose confidence is at or above the stored confidence
\* threshold
WithinThresholds(p, sample) ==
  {s \in SensorIds :
     /\ sample[s].distance_cm <= ThresholdGet(p.thresholds, s)
     /\ sample[s].confidence >= p.confidence_threshold}

\* a process_telemetry_data call of the detecting detector with this sample,
\* made by the polling loop or by the streaming loop's hook
Analyses(sample) ==
  /\ prox.detecting
  /\ \E t \in 1..MaxThreads :
       PLoopProcess(t, sample, TRUE) \/ UStreamTick(t, sample, TRUE)

\* C21: an analysis classifies a sensor as alerting if and only if its
\* distance is at or below that sensor's configured threshold and its
\* confidence is at or above the confidence threshold, for every sensor,
\* reading and threshold value
C21_AlertIffWithinThresholds ==
  [][\A sample \in ProxSamples :
       Analyses(sample) => calls'.alerting = WithinThresholds(prox, sample)]_vars

\* sensor 4 alerts with a distance equal to its updated threshold while the
\* confidence threshold is the initial one
C21_Witness ==
  /\ 4 \in calls.alerting
  /\ ThresholdGet(prox.thresholds, 4) = 200
  /\ prox.confidence_threshold = ConfidenceThreshold

\* the result of an analysis reports a sensor of the set with the smallest
\* distance in the set
ReportsClosest(alert, sensors, sample) ==
  /\ alert.sensor_id \in sensors
  /\ alert.distance_cm = sample[alert.sensor_id].distance_cm
  /\ \A u \in sensors : alert.distance_cm <= sample[u].distance_cm

\* C22: when several sensors alert in the same sample, the call publishes
\* exactly one result (one invocation of the publish callback), and the
\* sensor it reports has the minimum distance among the alerting sensors
C22_OnePublicationForClosest ==
  [][\A sample \in ProxSamples :
       Analyses(sample) /\ Cardinality(WithinThresholds(prox, sample)) >= 2
         => /\ calls'.invoked = calls.invoked + 1
            /\ ReportsClosest(calls'.alert, WithinThresholds(prox, sample), sample)]_vars

\* what the code does keep of C22: the call computes one result, for the
\* closest of the alerting sensors, and invokes the callback at most once
C22_OneResultForClosest ==
  [][\A sample \in ProxSamples :
       Analyses(sample) /\ Cardinality(WithinThresholds(prox, sample)) >= 2
         => /\ calls'.detected = calls.detected + 1
            /\ calls'.invoked <= calls.invoked + 1
            /\ ReportsClosest(calls'.alert, WithinThresholds(prox, sample), sample)]_vars

\* an analysis of the sample finds the sensor's distance above its threshold
\* (the reading passes the confidence test)
FoundAbove(p, sample, s) ==
  /\ sample[s].confidence >= p.confidence_threshold
  /\ sample[s].distance_cm > ThresholdGet(p.thresholds, s)

\* the result of the analysis reports sensor s, and so did the result of
\* the call before it
ReportsAgain(s) ==
  /\ calls'.alert.sensor_id = s
  /\ calls.alert.sensor_id = s

C24_TrackedIffAlerting ==
  [][\A sample \in ProxSamples :
       Analyses(sample)
         => \A s \in SensorIds :
              prox'.tracking[s] # None <=> s \in calls'.alerting]_vars

\* the sample in which sensor 2 reads 70 cm with confidence 0.90
SampleAt70 ==
  [s \in SensorIds |-> IF s = 2 THEN Reading(70, 90) ELSE Reading(200, 90)]

\* C25: a successful threshold update takes effect on the very next
\* process_telemetry_data call and on no earlier one: the update stores the
\* value and leaves the results already computed alone, and each analysis
\* classifies with the values stored when it runs (sensor 2 at 70 cm alerts
\* exactly when its stored threshold has been raised to 70 or more)
C25_UpdateEffectiveOnNextCall ==
  [][/\ \A arg \in ThresholdArgs, s \in SensorIds :
          /\ PUpdateThreshold(arg[1], arg[2])
          /\ ret'.success = "true"
          /\ arg[1] = ChannelKey(s)
          => /\ ThresholdGet(prox'.thresholds, s) = arg[2]
             /\ calls' = calls
             /\ prox'.tracking = prox.tracking
     /\ \A confidence \in ConfidenceArgs :
          PUpdateConfidence(confidence) /\ ret'.success = "true"
            => /\ prox'.confidence_threshold = confidence
               /\ calls' = calls
               /\ prox'.tracking = prox.tracking
     /\ Analyses(SampleAt70)
          => (2 \in calls'.alerting
                <=> /\ ThresholdGet(prox.thresholds, 2) >= 70
                    /\ prox.confidence_threshold <= 90)]_vars

\* the first alert of the session is sensor 2 at 70 cm, after its threshold
\* was raised to 75
C25_Witness ==
  /\ ThresholdGet(prox.thresholds, 2) = 75
  /\ calls.alerting = {2}
  /\ calls.alert.distance_cm = 70
  /\ calls.detected = 1

\* the request names one of the sensors 1..4 and a threshold in 5..200
ValidThresholdUpdate(sensor_id, threshold_cm) ==
  /\ sensor_id \in {ChannelKey(s) : s \in SensorIds}
  /\ 5 <= threshold_cm /\ threshold_cm <= 200

\* C26: a threshold update stores the value and reports success exactly
\* when the sensor is one of 1..4 and the value lies in 5..200, a confidence
\* update exactly when the value lies in 0.0..1.0; a rejected update reports
\* failure and leaves every threshold unchanged, and all stored thresholds
\* are inside their bounds
C26_UpdatesValidated ==
  [][/\ \A arg \in ThresholdArgs :
          PUpdateThreshold(arg[1], arg[2])
            => IF ValidThresholdUpdate(arg[1], arg[2])
                 THEN /\ ret'.success = "true"
                      /\ prox'.thresholds = [prox.thresholds EXCEPT ![arg[1]] = arg[2]]
                 ELSE /\ ret'.success = "false"
                      /\ prox' = prox
     /\ \A confidence \in ConfidenceArgs :
          PUpdateConfidence(confidence)
            => IF 0 <= confidence /\ confidence <= 100
                 THEN /\ ret'.success = "true"
                      /\ prox'.confidence_threshold = confidence
                 ELSE /\ ret'.success = "false"
                      /\ prox' = prox
     /\ \A k \in DOMAIN prox'.thresholds :
          5 <= prox'.thresholds[k] /\ prox'.thresholds[k] <= 200
     /\ 0 <= prox'.confidence_threshold /\ prox'.confidence_threshold <= 100]_vars

(***************************************************************************)
(* Properties of the collector's sessions                                  *)
(***************************************************************************)
\* C30: every successful start_collection begins a new, empty session log:
\* right after it the log holds no sample of an earlier session, so that
\* the entry count of get_summary_data / get_collection_status counts only
\* samples of the current session
C30_StartBeginsEmptyLog ==
  [][/\ \E config \in LoopConfigs, io_ok \in BOOLEAN : LidarStart(config, io_ok)
     /\ ~collecting
     /\ collecting'
     /\ ~ret'.error
     => telemetry_entries' = <<>>]_vars

(***************************************************************************)
(* Properties of the generation loop's tick                                *)
(***************************************************************************)
\* the sample is an entry of the session log
InLog(log, sample) ==
  \E i \in 1..Len(log) : log[i] = sample

C29_OneConfigurationSnapshot ==
  \A t \in 1..MaxThreads :
    threads[t].pc \in {"generate", "stored", "saving", "saved"}
      => \E p \in threads[t].seen : threads[t].snap = ReadParameters(p)

\* the thread whose lock the thread waits for at its next lock operation,
\* "none" when the operation can be made
WaitsFor(th) ==
  IF at[th].call = "idle" THEN "none"
  ELSE LET ins == ProgramOf(th, at[th].call)[at[th].i]
       IN IF ins[1] = "acquire" /\ held[ins[2]].owner \notin {"free", th}
            THEN held[ins[2]].owner
            ELSE "none"

\* no set of threads in which every thread waits for a lock another one of
\* the set holds
NoWaitCycle ==
  \A T \in SUBSET LockThreads :
    T # {} => \E th \in T : WaitsFor(th) \notin T

\* the generation loop is not inside its collector block while it is inside
\* the detector's hook
HookOutsideLock ==
  held["detector"].owner = "generation" => held["collector"].owner # "generation"

\* C28: the control thread and the three loops never deadlock: the generation
\* loop does not hold the collector's lock while it is in the detector hook, no
\* set of threads waits for each other's locks, a streaming pass or a poll
\* that calls get_current_telemetry() gets through it, and every control call,
\* stop and reset included, returns
C28_NoDeadlock ==
  /\ [](NoWaitCycle /\ HookOutsideLock)
  /\ \A th \in {"streaming", "detector"} :
       (at[th].i = 1) ~> (at[th].i = 3)
  /\ (at["control"].call # "idle") ~> (at["control"].call = "idle")

\* stop or reset holds the control lock and waits for the collector's lock
\* while the detector's poll is inside get_current_telemetry()
C28_Witness ==
  /\ at["control"].call \in {"stop", "reset"}
  /\ held["control"].owner = "control"
  /\ WaitsFor("control") = "detector"
  /\ held["collector"].owner = "detector"

\* a pass of the occupancy detector's polling loop hands a result to the
\* publish callback
PollPublishes ==
  /\ \E t \in 1..MaxThreads, detected \in BOOLEAN, cb_ok \in BOOLEAN :
       OccPoll(t, detected, cb_ok)
  /\ calls'.invoked > calls.invoked

\* C31: a sample the streaming loop publishes is the collector's current
\* sample, which the generation loop stored and logged before; a pass of the
\* detector's polling loop publishes only when the collector has a current
\* sample.
C31_ConsumersUseStoredSample ==
  [][/\ delivered'.count > delivered.count
          => /\ delivered'.sample = current_telemetry
             /\ collecting
             /\ InLog(telemetry_entries, delivered'.sample)
     /\ PollPublishes
          => GetCurrentTelemetry(collecting, current_telemetry) # NoTelemetry]_vars

\* a status change along the documented transitions of a control service
DocumentedTransition(op, status, status2) ==
  \/ op = "start" /\ status = "idle" /\ status2 = "operational"
  \/ op = "stop" /\ status = "operational" /\ status2 = "idle"
  \/ status2 = "error"
  \/ op = "reset" /\ status \in {"error", "idle", "operational"} /\ status2 = "idle"

\* C32: the status of each control service is always one of idle,
\* operational, warming_up, calibrating and error, and it changes only by
\* start from idle to operational, by stop from operational to idle, to
\* error, and by reset from error, idle or operational to idle.
C32_StatusTransitions ==
  /\ [](/\ state.status \in {"idle", "operational", "warming_up", "calibrating", "error"}
        /\ u_status \in {"idle", "operational", "warming_up", "calibrating", "error"})
  /\ [][/\ state'.status # state.status
             => DocumentedTransition(ret'.op, state.status, state'.status)
        /\ u_status' # u_status
             => DocumentedTransition(ret'.op, u_status, u_status')]_vars

C35_ActiveIffOperational ==
  state.active <=> state.status = "operational"

\* C36: between the calls of the control service, while the service is
\* active the collector's parameters have the rate, the resolution and the
\* range filter of the control service's state.
C36_CollectorFollowsConfiguration ==
  state.active => parameters = Cfg(state)

\* C37: between the calls of start_collection, while the collecting flag is
\* true a generation loop of the collector is live: a start_collection that
\* fails while it creates the session file leaves the collector not
\* collecting.
C37_CollectingHasLoop ==
  collecting => LiveThreads(threads) # {}

\* the entries of a, in their order, are among the entries of b
IsSubsequence(a, b) ==
  \E f \in [1..Len(a) -> 1..Len(b)] :
    /\ \A i \in 1..Len(a) : a[i] = b[f[i]]
    /\ \A i, j \in 1..Len(a) : i < j => f[i] < f[j]

\* C38: the session file loses no sample: when a tick has written the
\* file, the file holds, in their order, the samples it held before and,
\* after them, the sample of the tick, also when the collector was stopped
\* and started again while an earlier tick was running.
C38_SessionFileLosesNoSample ==
  [][\A t \in 1..MaxThreads :
       TickSaveWrite(t)
         => IsSubsequence(Append(session_file, threads[t].snap), session_file')]_vars

\* C39: a call of process_telemetry_data that runs while the other caller's
\* call is in progress has the effect it has in a sequential order of the
\* two calls, in which the outcome of a call depends on its sample and the
\* thresholds only: the call returns an alert and counts a detection exactly
\* when a reading of its sample is within the thresholds, and no call ends
\* in the except clause.
C39_ConcurrentCallsAsSequential ==
  [][\A c \in Callers, t \in 1..MaxThreads :
       (ProcessEnd(c, t) /\ analysis[c].pc = "analysed")
         => /\ ~analysis[c].raised
            /\ calls'.result = IF WithinThresholds(prox, analysis[c].sample) # {}
                                 THEN "detected" ELSE "clear"
            /\ prox'.detection_count
                 = prox.detection_count
                     + (IF WithinThresholds(prox, analysis[c].sample) # {} THEN 1 ELSE 0)]_vars

\* the loops of a service whose thread has been started and has not ended
LivePcs(th) ==
  {t \in DOMAIN th : th[t] # "none"}

\* C40: a streaming service and a detector never have more than one live
\* background loop, whatever the interleaving of start calls, stop calls and
\* loop steps (a stop followed at once by a start included)
C40_AtMostOneLiveLoop ==
  /\ Cardinality(LivePcs(stream_threads)) <= 1
  /\ Cardinality(LivePcs(us_threads)) <= 1
  /\ Cardinality(LivePcs(occ_threads)) <= 1
  /\ Cardinality(LivePcs(prox_threads)) <= 1

====
